---- MODULE Spec2Model ----
(***************************************************************************)
(* Dependency resolver of channel_sync and the code around it.            *)
(*                                                                         *)
(* Three revisions of the resolver live in the repository and all are      *)
(* modelled; `variant` selects which one a run executes:                   *)
(*   "replicate"  conda_replicate/resolve.py  find_packages                *)
(*   "local"      conda_local/resolve.py      resolve_packages / Resolver  *)
(*   "finder"     conda_local/graph.py        DependencyGraph              *)
(*                                                                         *)
(* Each further area has its variables and its own specification:          *)
(*   ChannelSpec  diff, patch instructions, sync and merge                 *)
(*   UpdateSpec   an update of a target channel, step by step              *)
(*   AddSpec      storing one package file                                 *)
(*   FilterSpec   the filters of one channel query                         *)
(*   OrderSpec    isoconda's VersionOrder                                  *)
(*   LoadSpec     isoconda's RepoData.from_data                            *)
(*                                                                         *)
(* Graph nodes are strings, as in the source graph where match             *)
(* specifications are stored by their string and packages by identity:     *)
(* a specification node is its spec string, a package node is the file     *)
(* name that carries the package's identity key.                           *)
(***************************************************************************)
EXTENDS Integers, FiniteSets, Sequences, TLC

VARIABLES
    variant,            \* which resolver revision runs
    latest,             \* the `latest` flag
    validate,           \* Resolver.validate (conda_local only)
    channel,            \* package ids served by the source channel
    requirements,       \* R: requirement spec strings
    exclusions,         \* X: exclusion spec strings
    disposables,        \* D: disposable spec strings
    pc,                 \* position inside the resolution
    nodes,              \* graph nodes
    edges,              \* graph edges, pairs <<u, v>>
    roots,              \* nodes carrying the attribute root=True
    specs_to_process,   \* pending spec strings
    specs_processed,    \* spec strings already queried
    scan,               \* nodes of the running pruning scan not yet visited
    result,             \* returned packages
    error,              \* TRUE iff UnsatisfiedRequirementsError was raised
    missing,            \* UnsatisfiedRequirementsError.missing
    run,                \* 1 in a first call, 2 in a call that follows one
    first,              \* inputs and returned set of the first call
    change,             \* how the inputs of the second call differ
    flow,               \* entry point that runs on the channel stores
    writer,             \* function that writes the patch instructions
    target,             \* "none", "unqueryable" or "queryable"
    resolved,           \* U: records the resolver returned
    existing,           \* L: records the target's index serves
    to_add,             \* records to download
    to_remove,          \* records no longer resolved
    failure,            \* exception that ended the flow, "none" if none
    upstream_instructions,  \* subdir -> patch_instructions.json upstream
    patch_instructions,     \* subdir -> patch_instructions.json of the patch
    written,            \* subdirs whose instructions were handled
    read_back,          \* subdir -> instructions read from the patch
    step,               \* position inside the flow
    resolved_before,    \* records resolved for the specs of the first sync
    local_files,        \* package files of the local channel
    local_index,        \* records the local channel's index serves
    patch_files,        \* package files of the patch folder
    patch_summary,      \* patch_summary.json
    fresh_files,        \* package files of a freshly synchronised channel
    excluded,           \* DependencyGraph: nodes marked include=False
    malformed,          \* parameter lists holding a malformed spec string
    unsatisfiable,      \* TRUE iff the resolver finds a requirement unsatisfied
    queried,            \* TRUE iff a query was issued to the source channel
    target_meta,        \* files of the target channel that are no packages
    adder,              \* function that stores a package file
    verify,             \* download_package's verify flag
    stored,             \* bytes held at the destination path, or "absent"
    remote,             \* bytes the package's url serves
    fetched,            \* bytes downloaded by the running call, or "none"
    at,                 \* position inside the running call
    outcome,            \* "running", "returned" or "raised"
    stored_before,      \* `stored` when the running call began
    writes,             \* writes to the destination by the running call
    adds,               \* calls made so far
    route,              \* way the latest-build filter is reached
    pins,               \* requirements of the filtered query
    latest_versions,    \* find_packages' latest_versions flag
    latest_roots,       \* find_packages' latest_roots flag
    returned_records,   \* records channel.query_packages returns
    filters,            \* filters of the query, in order
    passing,            \* records that passed the filters applied so far
    applied,            \* number of filters applied
    lhs,                \* version string, left operand
    rhs,                \* version string, right operand
    compared,           \* results of the comparisons, or "none"
    repodata,           \* dictionary handed to RepoData.from_data
    prefer_conda,       \* from_data's prefer_conda flag
    key_order,          \* keys of the dictionary still to read
    cursor,             \* entries of the current key already read
    package_groups,     \* records kept so far, in order
    load_error,         \* "pending", then "none" or the exception raised
    pending_order,      \* pending specs in the order they were added
    take_order,         \* specs in the order they were taken
    insert_order,       \* graph nodes in the order they were added
    visit_order         \* nodes in the order the running scan visited them

vars == <<variant, latest, validate, channel, requirements, exclusions,
          disposables, pc, nodes, edges, roots, specs_to_process,
          specs_processed, scan, result, error, missing, run, first, change,
          flow, writer, target, resolved, existing, to_add, to_remove, failure,
          upstream_instructions, patch_instructions, written, read_back, step,
          resolved_before, local_files, local_index, patch_files,
          patch_summary, fresh_files, excluded, malformed, unsatisfiable,
          queried, target_meta, adder, verify, stored, remote, fetched, at,
          outcome, stored_before, writes, adds, route, pins, latest_versions,
          latest_roots, returned_records, filters, passing, applied, lhs,
          rhs, compared, repodata, prefer_conda, key_order, cursor,
          package_groups, load_error, pending_order, take_order,
          insert_order, visit_order>>

calls == <<run, first, change>>

store == <<flow, writer, target, resolved, existing, to_add, to_remove, failure,
           upstream_instructions, patch_instructions, written, read_back, step,
           resolved_before, local_files, local_index, patch_files,
           patch_summary, fresh_files>>

params == <<variant, latest, validate, channel, requirements, exclusions,
            disposables>>

resolver == <<params, pc, nodes, edges, roots, specs_to_process,
              specs_processed, scan, result, error, missing>>

given == <<flow, writer, target, resolved, existing, upstream_instructions,
           resolved_before>>

patching == <<patch_instructions, written, read_back>>

syncing == <<local_files, local_index, patch_files, patch_summary, fresh_files>>

finder == <<excluded>>

updating == <<malformed, unsatisfiable, queried, target_meta>>

adding == <<adder, verify, stored, remote, fetched, at, outcome, stored_before,
            writes, adds>>

filtering == <<route, pins, latest_versions, latest_roots, returned_records,
               filters, passing, applied>>

ordering == <<lhs, rhs, compared>>

loading == <<repodata, prefer_conda, key_order, cursor, package_groups, load_error>>

(* Functions that are checked on their own. *)
streaming == <<pending_order, take_order, insert_order, visit_order>>

pure == <<filtering, ordering, loading, streaming>>

(* Everything outside the resolver and the channel stores. *)
aside == <<finder, updating, adding, pure>>

not_finder == <<updating, adding, pure>>

-----------------------------------------------------------------------------
(* Bounds of the explored inputs.                                          *)

MaxChannel == 4
MaxReq == 2
MaxFilter == 1
MaxTwiceChannel == 5
MaxTwiceReq == 1
MaxFinderChannel == 4
MaxFinderSpecs == 2
MaxAdds == 2
MaxPins == 2
MaxVersionLen == 2
MaxEntries == 2

-----------------------------------------------------------------------------
(* Package records: identity and dependency list.                          *)

Pkg(n, v, b, bn, deps) ==
    [name |-> n, version |-> v, build |-> b, build_number |-> bn,
     depends |-> deps]

PackageTable ==
    [id \in {"a-1-0", "a-2-0", "a-2-1", "b-1-0", "b-2-0", "c-1-0", "d-1-0"} |->
        CASE id = "a-1-0" -> Pkg("a", 1, 0, 0, <<"b", "d">>)
          [] id = "a-2-0" -> Pkg("a", 2, 0, 0, <<>>)
          [] id = "a-2-1" -> Pkg("a", 2, 1, 1, <<>>)
          [] id = "b-1-0" -> Pkg("b", 1, 0, 0, <<"c">>)
          [] id = "b-2-0" -> Pkg("b", 2, 0, 0, <<>>)
          [] id = "c-1-0" -> Pkg("c", 1, 0, 0, <<"b <2", "a * 0">>)
          [] id = "d-1-0" -> Pkg("d", 1, 0, 0, <<>>)]

PackageIds == DOMAIN PackageTable

Name(p) == PackageTable[p].name
Version(p) == PackageTable[p].version
Build(p) == PackageTable[p].build
BuildNumber(p) == PackageTable[p].build_number
Depends(p) == PackageTable[p].depends

DependsSet(p) == {Depends(p)[i] : i \in 1..Len(Depends(p))}

(* Match specifications: the parsed form of each spec string.  lo..hi is   *)
(* the accepted version range, build = -1 accepts every build.             *)

MSpec(n, lo, hi, b) == [name |-> n, lo |-> lo, hi |-> hi, build |-> b]

SpecTable ==
    [s \in {"a", "b", "c", "d", "b >=2", "b <2", "a * 0", "a * 1"} |->
        CASE s = "a"     -> MSpec("a", 0, 9, -1)
          [] s = "b"     -> MSpec("b", 0, 9, -1)
          [] s = "c"     -> MSpec("c", 0, 9, -1)
          [] s = "d"     -> MSpec("d", 0, 9, -1)
          [] s = "b >=2" -> MSpec("b", 2, 9, -1)
          [] s = "b <2"  -> MSpec("b", 0, 1, -1)
          [] s = "a * 0" -> MSpec("a", 0, 9, 0)
          [] s = "a * 1" -> MSpec("a", 0, 9, 1)]

SpecStrings == DOMAIN SpecTable

SpecName(s) == SpecTable[s].name

Match(s, p) ==
    /\ SpecTable[s].name = Name(p)
    /\ SpecTable[s].lo <= Version(p)
    /\ Version(p) <= SpecTable[s].hi
    /\ (SpecTable[s].build = -1 \/ SpecTable[s].build = Build(p))

IsSpecNode(n) == n \in SpecStrings
IsPackageNode(n) == n \in PackageIds

Group(specs, name) == {s \in specs : SpecName(s) = name}

-----------------------------------------------------------------------------
(* Graph primitives (networkx.DiGraph).                                    *)

Successors(E, n) == {e[2] : e \in {f \in E : f[1] = n}}
Predecessors(E, n) == {e[1] : e \in {f \in E : f[2] = n}}

Graph(N, E) == [nodes |-> N, edges |-> E]

(* Mutant: the node goes, its edges stay. *)
RemoveNodeKeepingEdges(G, n) == Graph(G.nodes \ {n}, G.edges)

RemoveNode(G, n) ==
    Graph(G.nodes \ {n}, {e \in G.edges : e[1] # n /\ e[2] # n})

RECURSIVE Reach(_, _)
Reach(E, S) ==
    LET T == S \cup UNION {Successors(E, n) : n \in S}
    IN  IF T = S THEN S ELSE Reach(E, T)

-----------------------------------------------------------------------------
(* Queries and filters.                                                    *)

ChannelQuery(spec) == {p \in channel : Match(spec, p)}

InclusionFilter(specs, pkgs) ==
    {p \in pkgs : \A s \in Group(specs, Name(p)) : Match(s, p)}

(* Mutant: the filter lets every package through. *)
ExclusionFilterKeepingAll(specs, pkgs) == pkgs

ExclusionFilter(specs, pkgs) ==
    {p \in pkgs : ~ \E s \in Group(specs, Name(p)) : Match(s, p)}

MaxVersion(pkgs) ==
    CHOOSE v \in {Version(p) : p \in pkgs} : \A q \in pkgs : Version(q) <= v

LatestVersionFilter(keep_specs, pkgs) ==
    {p \in pkgs :
        \/ \E s \in Group(keep_specs, Name(p)) : Match(s, p)
        \/ Version(p) = MaxVersion({q \in pkgs : Name(q) = Name(p)})}

PackageQuery(spec) ==
    LET p0 == ChannelQuery(spec)
        p1 == IF requirements # {} THEN InclusionFilter(requirements, p0) ELSE p0
        p2 == IF exclusions # {} THEN ExclusionFilter(exclusions, p1) ELSE p1
    IN  IF latest THEN LatestVersionFilter(requirements, p2) ELSE p2

BuildKeyLeq(p, q) ==
    \/ Build(p) < Build(q)
    \/ Build(p) = Build(q) /\ BuildNumber(p) <= BuildNumber(q)

LatestBuilds(pkgs) ==
    {p \in pkgs :
        \A q \in pkgs :
            (Name(q) = Name(p) /\ Version(q) = Version(p)
                /\ Depends(q) = Depends(p)) => BuildKeyLeq(q, p)}

query_packages(spec) ==
    IF latest THEN LatestBuilds(ChannelQuery(spec)) ELSE ChannelQuery(spec)

(* Mutant: the requirements of the package's name are not consulted. *)
is_constrained_ignoring_requirements(p) ==
    \E s \in Group(exclusions, Name(p)) : Match(s, p)

(* Mutant: the exclusions of the package's name are not consulted. *)
is_constrained_ignoring_exclusions(p) ==
    ~ \A s \in Group(requirements, Name(p)) : Match(s, p)

is_constrained(p) ==
    \/ ~ \A s \in Group(requirements, Name(p)) : Match(s, p)
    \/ \E s \in Group(exclusions, Name(p)) : Match(s, p)

is_disposable(p) == \E s \in Group(disposables, Name(p)) : Match(s, p)

(* Mutant: disposable records are filtered out of the queries. *)
CandidatesHidingDisposables(spec) ==
    IF variant = "replicate"
    THEN {p \in PackageQuery(spec) : ~ is_disposable(p)}
    ELSE {p \in query_packages(spec) : ~ is_constrained(p) /\ ~ is_disposable(p)}

(* Mutant: conda_local takes the latest build among the unconstrained. *)
CandidatesLatestAfterConstraints(spec) ==
    IF variant = "replicate"
    THEN PackageQuery(spec)
    ELSE IF latest
         THEN LatestBuilds({p \in ChannelQuery(spec) : ~ is_constrained(p)})
         ELSE {p \in ChannelQuery(spec) : ~ is_constrained(p)}

(* The candidates one spec contributes to the graph. *)
Candidates(spec) ==
    IF variant = "replicate"
    THEN PackageQuery(spec)
    ELSE {p \in query_packages(spec) : ~ is_constrained(p)}

-----------------------------------------------------------------------------
(* Pruning of unsatisfied specification nodes.  The recursion visits the   *)
(* predecessors in the order the adjacency lists hold them; every order    *)
(* is allowed, so each operator returns the set of possible graphs.        *)

RECURSIVE prune_unsatisfied(_, _), PruneParents(_, _), PruneGrandparents(_, _)

(* Mutant: the unsatisfied spec is removed, the packages needing it stay. *)
prune_unsatisfied_keeping_parents(G, node) ==
    IF ~ IsSpecNode(node) THEN {G}
    ELSE IF node \notin G.nodes THEN {G}
    ELSE IF Successors(G.edges, node) # {} THEN {G}
    ELSE {RemoveNode(G, node)}

(* Mutant: a root spec is never removed. *)
prune_unsatisfied_sparing_roots(G, node) ==
    IF ~ IsSpecNode(node) THEN {G}
    ELSE IF node \notin G.nodes THEN {G}
    ELSE IF node \in roots THEN {G}
    ELSE IF Successors(G.edges, node) # {} THEN {G}
    ELSE PruneParents(RemoveNode(G, node), Predecessors(G.edges, node))

prune_unsatisfied(G, node) ==
    IF ~ IsSpecNode(node) THEN {G}
    ELSE IF node \notin G.nodes THEN {G}
    ELSE IF Successors(G.edges, node) # {} THEN {G}
    ELSE PruneParents(RemoveNode(G, node), Predecessors(G.edges, node))

(* Mutant: the parents are removed, their own predecessors not rechecked. *)
PruneParentsWithoutCascade(G, parents) ==
    {Graph(G.nodes \ parents,
           {e \in G.edges : e[1] \notin parents /\ e[2] \notin parents})}

PruneParents(G, parents) ==
    IF parents = {} THEN {G}
    ELSE UNION {
            IF parent \notin G.nodes
            THEN PruneParents(G, parents \ {parent})
            ELSE UNION {PruneParents(G2, parents \ {parent}) :
                        G2 \in PruneGrandparents(RemoveNode(G, parent),
                                                 Predecessors(G.edges, parent))}
            : parent \in parents}

PruneGrandparents(G, grandparents) ==
    IF grandparents = {} THEN {G}
    ELSE UNION {
            UNION {PruneGrandparents(G2, grandparents \ {gp}) :
                   G2 \in prune_unsatisfied(G, gp)}
            : gp \in grandparents}

(* Pruning of orphaned nodes (conda_local). *)

RECURSIVE prune_orphaned(_, _, _), PruneChildren(_, _, _)

(* Mutant: the orphan is removed, its children are not rechecked. *)
prune_orphaned_without_cascade(G, rootset, node) ==
    IF node \notin G.nodes THEN {G}
    ELSE IF node \in rootset THEN {G}
    ELSE IF Predecessors(G.edges, node) # {} THEN {G}
    ELSE {RemoveNode(G, node)}

prune_orphaned(G, rootset, node) ==
    IF node \notin G.nodes THEN {G}
    ELSE IF node \in rootset THEN {G}
    ELSE IF Predecessors(G.edges, node) # {} THEN {G}
    ELSE PruneChildren(RemoveNode(G, node), rootset, Successors(G.edges, node))

PruneChildren(G, rootset, children) ==
    IF children = {} THEN {G}
    ELSE UNION {
            UNION {PruneChildren(G2, rootset, children \ {child}) :
                   G2 \in prune_orphaned(G, rootset, child)}
            : child \in children}

(* Pruning of disconnected nodes (conda_replicate). *)

Connected(G, specs) == Reach(G.edges, specs \cap G.nodes)

-----------------------------------------------------------------------------
(* Channel stores: records by subdir, package files, patch instructions.   *)

Subdirs == {"noarch", "linux-64"}
StoredIds == {"a-2-0", "d-1-0"}

(* A record as a channel of canonical name ch serves it. *)
Served(sd, id, ch) == [subdir |-> sd, id |-> id, channel |-> ch]
ServedBy(ch) == {Served(sd, id, ch) : sd \in Subdirs, id \in StoredIds}

(* CondaPackage.fn: the file name holds name, version and build. *)
Fn(r) == r.id

(* The place of a record's package file inside a channel folder. *)
File(r) == <<r.subdir, Fn(r)>>
Files(records) == {File(r) : r \in records}

(* Mutant: the key holds the channel too. *)
IdentityKeyWithChannel(r) ==
    <<r.channel, r.subdir, Name(r.id), Version(r.id), BuildNumber(r.id), Build(r.id)>>

(* CondaPackage._key; __eq__ and __hash__ go through it. *)
IdentityKey(r) ==
    <<r.subdir, Name(r.id), Version(r.id), BuildNumber(r.id), Build(r.id)>>

Equal(r, q) == IdentityKey(r) = IdentityKey(q)
Hash(r) == IdentityKey(r)

(* Difference of two Python sets of records. *)
Minus(A, B) == {a \in A : \A b \in B : ~ Equal(a, b)}

(* compute_relative_complements_of_records: (A - B, B - A). *)
RelativeComplements(left, right) == <<Minus(left, right), Minus(right, left)>>

(* The records an index serves after update_index found these files. *)
Indexed(files) == {Served(f[1], f[2], "local") : f \in files}

(* patch_instructions.json as a JSON object: the keys it holds and the     *)
(* lists under `remove` and `revoke`, kept as the sets of their entries.   *)
Raw(keys, remove, revoke) == [keys |-> keys, remove |-> remove, revoke |-> revoke]

(* PatchInstructions.parse_raw: a list without entry defaults to empty. *)
Parse(raw) ==
    [remove |-> IF "remove" \in raw.keys THEN raw.remove ELSE {},
     revoke |-> IF "revoke" \in raw.keys THEN raw.revoke ELSE {}]

(* json.dumps(instructions.dict(by_alias=True)): every field is written. *)
Dump(instructions) == Raw({"remove", "revoke"}, instructions.remove, instructions.revoke)

InstructionChoices ==
    {Raw({}, {}, {}),
     Raw({"revoke"}, {}, {"d-1-0"}),
     Raw({"remove", "revoke"}, {"d-1-0"}, {})}

EmptyInstructions == [sd \in Subdirs |-> Raw({}, {}, {})]

NothingRead == [sd \in {} |-> Parse(Raw({}, {}, {}))]

NoSummary == [added |-> {}, removed |-> {}]

(* Nothing runs outside the resolver and the channel stores. *)
NoUpdate ==
    /\ malformed = {}
    /\ unsatisfiable = FALSE
    /\ queried = FALSE
    /\ target_meta = {}

NoAdd ==
    /\ adder = "none"
    /\ verify = TRUE
    /\ stored = "absent"
    /\ remote = "record"
    /\ fetched = "none"
    /\ at = "end"
    /\ outcome = "returned"
    /\ stored_before = "absent"
    /\ writes = 0
    /\ adds = 0

NoFilter ==
    /\ route = "none"
    /\ pins = {}
    /\ latest_versions = FALSE
    /\ latest_roots = FALSE
    /\ returned_records = {}
    /\ filters = <<>>
    /\ passing = {}
    /\ applied = 0

NotCompared ==
    [done |-> FALSE, raised |-> FALSE, lt |-> FALSE, gt |-> FALSE, eq |-> FALSE]

NoOrder == lhs = <<>> /\ rhs = <<>> /\ compared = NotCompared

(* The dictionary read from repodata.json; `packages` and `conda` are the  *)
(* items of its two maps in the order the file lists them.                 *)
RepodataDict(version, packages, conda) ==
    [key \in {"repodata_version", "packages", "packages.conda"} |->
        CASE key = "repodata_version" -> version
          [] key = "packages" -> packages
          [] key = "packages.conda" -> conda]

NoLoad ==
    /\ repodata = RepodataDict(1, <<>>, <<>>)
    /\ prefer_conda = FALSE
    /\ key_order = <<>>
    /\ cursor = 0
    /\ package_groups = <<>>
    /\ load_error = "idle"

NoStream ==
    /\ pending_order = <<>>
    /\ take_order = <<>>
    /\ insert_order = <<>>
    /\ visit_order = <<>>

NoAside ==
    /\ excluded = {}
    /\ NoUpdate /\ NoAdd /\ NoFilter /\ NoOrder /\ NoLoad /\ NoStream

(* No flow runs on the stores. *)
NoStore ==
    /\ flow = "none"
    /\ writer = "none"
    /\ target = "none"
    /\ resolved = {}
    /\ existing = {}
    /\ to_add = {}
    /\ to_remove = {}
    /\ failure = "none"
    /\ upstream_instructions = EmptyInstructions
    /\ patch_instructions = EmptyInstructions
    /\ written = {}
    /\ read_back = NothingRead
    /\ step = "idle"
    /\ resolved_before = {}
    /\ local_files = {}
    /\ local_index = {}
    /\ patch_files = {}
    /\ patch_summary = NoSummary
    /\ fresh_files = {}

-----------------------------------------------------------------------------
(* Initial state: the inputs of one call and an empty graph.               *)

Bounded(U, k) == {S \in SUBSET U : Cardinality(S) <= k}

RequirementChoices == {"a", "b", "b >=2"}
ExclusionChoices == {"b <2", "a * 1"}
DisposableChoices == {"b", "d"}

(* The inputs of a call: at most maxc records in the channel, at most maxr *)
(* requirement specs.                                                      *)
Inputs(maxc, maxr) ==
    /\ variant \in {"replicate", "local"}
    /\ latest \in BOOLEAN
    /\ validate \in BOOLEAN
    /\ variant = "replicate" => validate
    /\ channel \in Bounded(PackageIds, maxc)
    /\ requirements \in Bounded(RequirementChoices, maxr)
    /\ exclusions \in SUBSET ExclusionChoices
    /\ disposables \in SUBSET DisposableChoices
    /\ Cardinality(exclusions) + Cardinality(disposables) <= MaxFilter

(* No call has been made yet. *)
NoCall == [requirements |-> {}, exclusions |-> {}, channel |-> {}, result |-> {}]

FirstCall ==
    /\ pc = "start"
    /\ nodes = {}
    /\ edges = {}
    /\ roots = {}
    /\ specs_to_process = {}
    /\ specs_processed = {}
    /\ scan = {}
    /\ result = {}
    /\ error = FALSE
    /\ missing = {}
    /\ run = 1
    /\ first = NoCall
    /\ change = "none"

Init == Inputs(MaxChannel, MaxReq) /\ FirstCall /\ NoStore /\ NoAside

-----------------------------------------------------------------------------
(* Graph construction.                                                     *)

(* Mutant: an empty requirement set stands for every package name. *)
AddRootsDefaultingToAll ==
    /\ pc = "start"
    /\ LET specs == IF requirements = {} THEN {"a", "b", "c", "d"} ELSE requirements
       IN  /\ nodes' = specs
           /\ roots' = specs
           /\ specs_to_process' = specs
    /\ pc' = "populate"
    /\ UNCHANGED <<aside, store, calls, params, edges, specs_processed, scan, result, error, missing>>

(* The root nodes are added and queued. *)
AddRoots ==
    /\ pc = "start"
    /\ nodes' = requirements
    /\ roots' = requirements
    /\ specs_to_process' = requirements
    /\ pc' = "populate"
    /\ UNCHANGED <<aside, store, calls, params, edges, specs_processed, scan, result, error, missing>>

(* Mutant: a package already in the graph is not linked to the spec. *)
ProcessSpecSkippingKnownPackages ==
    /\ pc = "populate"
    /\ \E spec \in specs_to_process :
        LET pkgs == Candidates(spec) \ nodes
            deps == UNION {DependsSet(p) : p \in pkgs}
            done == specs_processed \cup {spec}
        IN  /\ specs_processed' = done
            /\ nodes' = nodes \cup pkgs \cup deps
            /\ edges' = edges \cup {<<spec, p>> : p \in pkgs}
                              \cup UNION {{<<p, d>> : d \in DependsSet(p)} : p \in pkgs}
            /\ specs_to_process' = (specs_to_process \ {spec}) \cup (deps \ done)
    /\ UNCHANGED <<aside, store, calls, params, pc, roots, scan, result, error, missing>>

(* Mutant: a dependency is queued again although it was processed. *)
ProcessSpecRequeueingProcessed ==
    /\ pc = "populate"
    /\ \E spec \in specs_to_process :
        LET pkgs == Candidates(spec)
            deps == UNION {DependsSet(p) : p \in pkgs}
            done == specs_processed \cup {spec}
        IN  /\ specs_processed' = done
            /\ nodes' = nodes \cup pkgs \cup deps
            /\ edges' = edges \cup {<<spec, p>> : p \in pkgs}
                              \cup UNION {{<<p, d>> : d \in DependsSet(p)} : p \in pkgs}
            /\ specs_to_process' = (specs_to_process \ {spec}) \cup deps
    /\ UNCHANGED <<aside, store, calls, params, pc, roots, scan, result, error, missing>>

(* Mutant: a dependency met again is added anew and loses its root mark. *)
ProcessSpecResettingRootMark ==
    /\ pc = "populate"
    /\ \E spec \in specs_to_process :
        LET pkgs == Candidates(spec)
            deps == UNION {DependsSet(p) : p \in pkgs}
            done == specs_processed \cup {spec}
        IN  /\ specs_processed' = done
            /\ nodes' = nodes \cup pkgs \cup deps
            /\ edges' = edges \cup {<<spec, p>> : p \in pkgs}
                              \cup UNION {{<<p, d>> : d \in DependsSet(p)} : p \in pkgs}
            /\ specs_to_process' = (specs_to_process \ {spec}) \cup (deps \ done)
            /\ roots' = roots \ deps
    /\ UNCHANGED <<aside, store, calls, params, pc, scan, result, error, missing>>

(* One iteration of the while loop: a pending spec is popped and queried,  *)
(* its candidates and their dependencies are linked.                       *)
ProcessSpec ==
    /\ pc = "populate"
    /\ \E spec \in specs_to_process :
        LET pkgs == Candidates(spec)
            deps == UNION {DependsSet(p) : p \in pkgs}
            done == specs_processed \cup {spec}
        IN  /\ specs_processed' = done
            /\ nodes' = nodes \cup pkgs \cup deps
            /\ edges' = edges \cup {<<spec, p>> : p \in pkgs}
                              \cup UNION {{<<p, d>> : d \in DependsSet(p)} : p \in pkgs}
            /\ specs_to_process' = (specs_to_process \ {spec}) \cup (deps \ done)
    /\ UNCHANGED <<aside, store, calls, params, pc, roots, scan, result, error, missing>>

(* The while loop ends and the unsatisfied scan takes its snapshot          *)
(* set(graph).  The call returns at once for a node that is not a str, so  *)
(* `scan` keeps the spec nodes of the snapshot.                            *)
EndPopulate ==
    /\ pc = "populate"
    /\ variant # "finder"
    /\ specs_to_process = {}
    /\ pc' = "unsatisfied"
    /\ scan' = {n \in nodes : IsSpecNode(n)}
    /\ UNCHANGED <<aside, store, calls, params, nodes, edges, roots, specs_to_process,
                   specs_processed, result, error, missing>>

-----------------------------------------------------------------------------
(* Pruning.                                                                *)

(* One iteration of `for node in set(graph)`, taken in any order.  The     *)
(* call returns at once for a node that has left the graph, and pruning    *)
(* adds no node, so `scan` drops the removed nodes with the visited one.   *)
PruneUnsatisfiedNode ==
    /\ pc = "unsatisfied"
    /\ \E node \in scan :
        \E G \in prune_unsatisfied(Graph(nodes, edges), node) :
            /\ nodes' = G.nodes
            /\ edges' = G.edges
            /\ scan' = (scan \ {node}) \cap G.nodes
    /\ UNCHANGED <<aside, store, calls, params, pc, roots, specs_to_process, specs_processed,
                   result, error, missing>>

(* conda_local: the orphan scan starts with a new snapshot set(graph).     *)
(* The call returns at once for a root node, so `scan` keeps the others.   *)
EndUnsatisfiedLocal ==
    /\ pc = "unsatisfied"
    /\ scan = {}
    /\ variant = "local"
    /\ pc' = "orphaned"
    /\ scan' = nodes \ roots
    /\ UNCHANGED <<aside, store, calls, params, nodes, edges, roots, specs_to_process,
                   specs_processed, result, error, missing>>

PruneOrphanedNode ==
    /\ pc = "orphaned"
    /\ \E node \in scan :
        \E G \in prune_orphaned(Graph(nodes, edges), roots, node) :
            /\ nodes' = G.nodes
            /\ edges' = G.edges
            /\ scan' = (scan \ {node}) \cap G.nodes
    /\ UNCHANGED <<aside, store, calls, params, pc, roots, specs_to_process, specs_processed,
                   result, error, missing>>

(* conda_replicate: everything not reachable from a requirement goes. *)
PruneDisconnectedNodes ==
    /\ pc = "unsatisfied"
    /\ scan = {}
    /\ variant = "replicate"
    /\ LET connected == Connected(Graph(nodes, edges), requirements)
       IN  /\ nodes' = nodes \cap connected
           /\ edges' = {e \in edges : e[1] \in connected /\ e[2] \in connected}
    /\ pc' = "verify"
    /\ UNCHANGED <<aside, store, calls, params, roots, specs_to_process, specs_processed, scan,
                   result, error, missing>>

-----------------------------------------------------------------------------
(* Verification and extraction.                                            *)

(* conda_replicate: _verify_graph_requirements, then extraction and the    *)
(* disposable filter of find_packages.                                     *)
VerifyAndExtractReplicate ==
    /\ pc = "verify"
    /\ LET absent == {s \in requirements : s \notin nodes}
           pkgs == {n \in nodes : IsPackageNode(n)}
       IN  IF absent # {}
           THEN /\ error' = TRUE
                /\ missing' = absent
                /\ result' = {}
           ELSE /\ error' = FALSE
                /\ missing' = {}
                /\ result' = IF disposables # {}
                             THEN ExclusionFilter(disposables, pkgs)
                             ELSE pkgs
    /\ pc' = "done"
    /\ UNCHANGED <<aside, store, calls, params, nodes, edges, roots, specs_to_process,
                   specs_processed, scan>>

(* Mutant: the validate flag is not consulted. *)
ExtractPackagesLocalAlwaysValidating ==
    /\ pc = "orphaned"
    /\ scan = {}
    /\ LET pkgnodes == {n \in nodes : IsPackageNode(n)}
           package_names == {Name(p) : p \in pkgnodes}
           required_package_names == {SpecName(s) : s \in requirements}
           absent == required_package_names \ package_names
       IN  IF absent # {}
           THEN /\ error' = TRUE
                /\ missing' = absent
                /\ result' = {}
           ELSE /\ error' = FALSE
                /\ missing' = {}
                /\ result' = {p \in pkgnodes : ~ is_disposable(p)}
    /\ pc' = "done"
    /\ UNCHANGED <<aside, store, calls, params, nodes, edges, roots, specs_to_process,
                   specs_processed, scan>>

(* conda_local: Resolver._extract_packages. *)
ExtractPackagesLocal ==
    /\ pc = "orphaned"
    /\ scan = {}
    /\ LET pkgnodes == {n \in nodes : IsPackageNode(n)}
           package_names == {Name(p) : p \in pkgnodes}
           required_package_names == {SpecName(s) : s \in requirements}
           absent == required_package_names \ package_names
       IN  IF validate /\ absent # {}
           THEN /\ error' = TRUE
                /\ missing' = absent
                /\ result' = {}
           ELSE /\ error' = FALSE
                /\ missing' = {}
                /\ result' = {p \in pkgnodes : ~ is_disposable(p)}
    /\ pc' = "done"
    /\ UNCHANGED <<aside, store, calls, params, nodes, edges, roots, specs_to_process,
                   specs_processed, scan>>

-----------------------------------------------------------------------------

Done == pc = "done"
Succeeded == pc = "done" /\ ~ error
Failed == pc = "done" /\ error

Next ==
    \/ AddRoots
    \/ ProcessSpec
    \/ EndPopulate
    \/ PruneUnsatisfiedNode
    \/ EndUnsatisfiedLocal
    \/ PruneOrphanedNode
    \/ PruneDisconnectedNodes
    \/ VerifyAndExtractReplicate
    \/ ExtractPackagesLocal

Spec == Init /\ [][Next]_vars

(* The resolver is one sequential call: a step that can be taken is taken. *)
FairSpec == Spec /\ WF_vars(Next)

-----------------------------------------------------------------------------
(* A second call after a first one that returned: the same resolver with   *)
(* one input changed.                                                      *)

ExcludeMore == {"b >=2", "a * 1"}
RequireMore == {"b", "b >=2"}

Again(R, X, served, how) ==
    /\ Succeeded
    /\ run = 1
    /\ first' = [requirements |-> requirements, exclusions |-> exclusions,
                 channel |-> channel, result |-> result]
    /\ run' = 2
    /\ change' = how
    /\ requirements' = R
    /\ exclusions' = X
    /\ channel' = served
    /\ pc' = "start"
    /\ nodes' = {}
    /\ edges' = {}
    /\ roots' = {}
    /\ specs_to_process' = {}
    /\ specs_processed' = {}
    /\ scan' = {}
    /\ result' = {}
    /\ error' = FALSE
    /\ missing' = {}
    /\ UNCHANGED <<aside, store, variant, latest, validate, disposables>>

(* The same call with one more exclusion spec. *)
ResolveAgainExcluding ==
    \E x \in ExcludeMore \ exclusions :
        Again(requirements, exclusions \cup {x}, channel, "exclude")

(* The same call with one more requirement spec. *)
ResolveAgainRequiring ==
    \E s \in RequireMore \ requirements :
        Again(requirements \cup {s}, exclusions, channel, "require")

(* The same call against a channel that serves exactly the returned set. *)
ResolveAgainOnResult ==
    /\ disposables = {}
    /\ Again(requirements, exclusions, result, "result")

TwiceInit == Inputs(MaxTwiceChannel, MaxTwiceReq) /\ FirstCall /\ NoStore /\ NoAside

TwiceNext ==
    \/ Next
    \/ ResolveAgainExcluding
    \/ ResolveAgainRequiring
    \/ ResolveAgainOnResult

TwiceSpec == TwiceInit /\ [][TwiceNext]_vars

-----------------------------------------------------------------------------
(* The flows on the channel stores.  The resolver has returned `resolved`. *)
(*   "find_packages"  conda_replicate/core.py find_packages + run_patch,   *)
(*                    conda_local/resolve.py resolve_packages + run_patch  *)
(*   "query"          conda_replicate/api.py query + create_patch          *)
(*   "diff"           conda_local/api.py diff, conda_local/patch.py and    *)
(*                    external.py writing the instructions                 *)
(*   "sync"           conda_local/api.py sync and merge                    *)

ResolverReturned ==
    /\ variant = "replicate"
    /\ latest = FALSE
    /\ validate = TRUE
    /\ channel = {}
    /\ requirements = {}
    /\ exclusions = {}
    /\ disposables = {}
    /\ pc = "done"
    /\ nodes = {}
    /\ edges = {}
    /\ roots = {}
    /\ specs_to_process = {}
    /\ specs_processed = {}
    /\ scan = {}
    /\ result = {}
    /\ error = FALSE
    /\ missing = {}
    /\ run = 1
    /\ first = NoCall
    /\ change = "none"

ChannelInit ==
    /\ ResolverReturned
    /\ NoAside
    /\ flow \in {"find_packages", "query", "diff", "sync"}
    /\ writer \in IF flow = "diff"
                  THEN {"update_patch_instructions", "fetch_patch_instructions"}
                  ELSE IF flow = "sync" THEN {"none"} ELSE {"write_instructions"}
    /\ target \in IF flow = "sync" THEN {"none"}
                  ELSE IF flow = "diff" THEN {"unqueryable", "queryable"}
                  ELSE {"none", "unqueryable", "queryable"}
    /\ resolved \in SUBSET ServedBy("upstream")
    /\ existing \in IF target = "queryable" THEN SUBSET ServedBy("local") ELSE {{}}
    /\ upstream_instructions \in IF flow = "sync" THEN {EmptyInstructions}
                                 ELSE [Subdirs -> InstructionChoices]
    /\ patch_instructions = IF flow = "diff" THEN upstream_instructions
                            ELSE EmptyInstructions
    /\ resolved_before \in IF flow = "sync" THEN SUBSET ServedBy("upstream") ELSE {{}}
    /\ to_add = {}
    /\ to_remove = {}
    /\ failure = "none"
    /\ written = {}
    /\ read_back = NothingRead
    /\ step = "start"
    /\ local_files = {}
    /\ local_index = {}
    /\ patch_files = {}
    /\ patch_summary = NoSummary
    /\ fresh_files = {}

(* find_packages / resolve_packages: the tail after resolver.resolve. *)
ResolvePackagesDiff ==
    /\ step = "start"
    /\ flow = "find_packages"
    /\ IF target = "none" \/ target # "queryable"
       THEN /\ to_add' = resolved
            /\ to_remove' = {}
       ELSE /\ to_add' = Minus(resolved, existing)
            /\ to_remove' = Minus(existing, resolved)
    /\ step' = "diffed"
    /\ UNCHANGED <<aside, resolver, calls, given, failure, patching, syncing>>

(* api.query: a target that is given goes through get_channel first. *)
QueryDiff ==
    /\ step = "start"
    /\ flow = "query"
    /\ IF target # "none"
       THEN IF target # "queryable"
            THEN /\ failure' = "invalid_channel"
                 /\ to_add' = {}
                 /\ to_remove' = {}
                 /\ step' = "failed"
            ELSE /\ failure' = failure
                 /\ to_add' = Minus(resolved, existing)
                 /\ to_remove' = Minus(existing, resolved)
                 /\ step' = "diffed"
       ELSE /\ failure' = failure
            /\ to_add' = resolved
            /\ to_remove' = {}
            /\ step' = "diffed"
    /\ UNCHANGED <<aside, resolver, calls, given, patching, syncing>>

(* Mutant: the pair of complements is unpacked the other way round. *)
ApiDiffSwapped ==
    /\ step = "start"
    /\ flow = "diff"
    /\ LET local_records == IF target = "queryable" THEN existing ELSE {}
           complements == RelativeComplements(local_records, resolved)
       IN  /\ to_remove' = complements[2]
           /\ to_add' = complements[1]
    /\ step' = "diffed"
    /\ UNCHANGED <<aside, resolver, calls, given, failure, patching, syncing>>

(* api.diff: a local channel that cannot be read counts as empty. *)
ApiDiff ==
    /\ step = "start"
    /\ flow = "diff"
    /\ LET local_records == IF target = "queryable" THEN existing ELSE {}
           complements == RelativeComplements(local_records, resolved)
       IN  /\ to_remove' = complements[1]
           /\ to_add' = complements[2]
    /\ step' = "diffed"
    /\ UNCHANGED <<aside, resolver, calls, given, failure, patching, syncing>>

(* create_patch / run_patch: one iteration of `for subdir in subdirs`. *)
WriteInstructions ==
    /\ step = "diffed"
    /\ writer = "write_instructions"
    /\ \E sd \in Subdirs \ written :
        LET instructions == Parse(upstream_instructions[sd])
            extended == [instructions EXCEPT
                            !.remove = @ \cup {Fn(pkg) : pkg \in to_remove}]
        IN  /\ patch_instructions' = [patch_instructions EXCEPT ![sd] = Dump(extended)]
            /\ written' = written \cup {sd}
    /\ UNCHANGED <<aside, resolver, calls, given, to_add, to_remove, failure, read_back,
                   step, syncing>>

(* patch.update_patch_instructions: the files create_patch_instructions    *)
(* copied from the source are rewritten, one per subdir with removals.     *)
UpdatePatchInstructions ==
    /\ step = "diffed"
    /\ writer = "update_patch_instructions"
    /\ written = {}
    /\ patch_instructions' =
            [sd \in Subdirs |->
                LET packages == {pkg \in to_remove : pkg.subdir = sd}
                    data == patch_instructions[sd]
                IN  IF packages # {} /\ "remove" \in data.keys
                    THEN [data EXCEPT !.remove = @ \cup {Fn(pkg) : pkg \in packages}]
                    ELSE data]
    /\ written' = Subdirs
    /\ UNCHANGED <<aside, resolver, calls, given, to_add, to_remove, failure, read_back,
                   step, syncing>>

(* external.fetch_patch_instructions for one subdir, handed the records to *)
(* remove from that subdir.                                                *)
FetchPatchInstructions ==
    /\ step = "diffed"
    /\ writer = "fetch_patch_instructions"
    /\ \E sd \in Subdirs \ written :
        LET packages_to_remove == {pkg \in to_remove : pkg.subdir = sd}
            data == upstream_instructions[sd]
        IN  /\ IF packages_to_remove = {}
               THEN /\ patch_instructions' = [patch_instructions EXCEPT ![sd] = data]
                    /\ failure' = failure
               ELSE IF "remove" \notin data.keys
               THEN /\ patch_instructions' = [patch_instructions EXCEPT ![sd] = data]
                    /\ failure' = "key_error"
               ELSE /\ patch_instructions' =
                            [patch_instructions EXCEPT ![sd] =
                                [data EXCEPT !.remove =
                                    @ \cup {Fn(pkg) : pkg \in packages_to_remove}]]
                    /\ failure' = failure
            /\ written' = written \cup {sd}
    /\ UNCHANGED <<aside, resolver, calls, given, to_add, to_remove, read_back, step,
                   syncing>>

(* read_instructions on the patch, for a subdir already handled. *)
ReadInstructions ==
    /\ step = "diffed"
    /\ \E sd \in written \ DOMAIN read_back :
        read_back' = [x \in DOMAIN read_back \cup {sd} |->
                        IF x = sd THEN Parse(patch_instructions[sd]) ELSE read_back[x]]
    /\ UNCHANGED <<aside, resolver, calls, given, to_add, to_remove, failure,
                   patch_instructions, written, step, syncing>>

(* api.sync without patch folder: diff, download, unlink, update_index. *)
Synchronise ==
    /\ step = "start"
    /\ flow = "sync"
    /\ LET complements == RelativeComplements(local_index, resolved_before)
           removed_records == complements[1]
           added_records == complements[2]
           files == (local_files \cup Files(added_records)) \ Files(removed_records)
       IN  /\ local_files' = files
           /\ local_index' = Indexed(files)
    /\ step' = "synced"
    /\ UNCHANGED <<aside, resolver, calls, given, to_add, to_remove, failure, patching,
                   patch_files, patch_summary, fresh_files>>

(* What write_patch_summary stores and read_patch_summary returns: the     *)
(* places of the added and of the removed package files.                   *)
PatchSummary(added_records, removed_records) ==
    [added |-> Files(added_records), removed |-> Files(removed_records)]

(* api.sync with a patch folder: the summary and the downloads go to the   *)
(* patch, the removed files leave the local channel, no index update.      *)
SynchroniseToPatch ==
    /\ step = "synced"
    /\ LET complements == RelativeComplements(local_index, resolved)
           removed_records == complements[1]
           added_records == complements[2]
       IN  /\ patch_summary' = PatchSummary(added_records, removed_records)
           /\ patch_files' = patch_files \cup Files(added_records)
           /\ local_files' = local_files \ Files(removed_records)
           /\ to_add' = added_records
           /\ to_remove' = removed_records
    /\ step' = "patched"
    /\ UNCHANGED <<aside, resolver, calls, given, failure, patching, local_index,
                   fresh_files>>

(* Mutant: the added files are not copied into the local channel. *)
MergeWithoutAdding ==
    /\ step = "patched"
    /\ LET files == local_files \ patch_summary.removed
       IN  /\ local_files' = files
           /\ local_index' = Indexed(files)
    /\ step' = "merged"
    /\ UNCHANGED <<aside, resolver, calls, given, to_add, to_remove, failure, patching,
                   patch_files, patch_summary, fresh_files>>

(* api.merge: copy the added files, unlink the removed ones, update_index. *)
Merge ==
    /\ step = "patched"
    /\ LET files == (local_files \cup (patch_summary.added \cap patch_files))
                        \ patch_summary.removed
       IN  /\ local_files' = files
           /\ local_index' = Indexed(files)
    /\ step' = "merged"
    /\ UNCHANGED <<aside, resolver, calls, given, to_add, to_remove, failure, patching,
                   patch_files, patch_summary, fresh_files>>

(* api.sync of the later specs into a channel that is still empty. *)
SynchroniseFresh ==
    /\ step = "merged"
    /\ LET complements == RelativeComplements({}, resolved)
       IN  fresh_files' = Files(complements[2]) \ Files(complements[1])
    /\ step' = "done"
    /\ UNCHANGED <<aside, resolver, calls, given, to_add, to_remove, failure, patching,
                   local_files, local_index, patch_files, patch_summary>>

ChannelNext ==
    \/ ResolvePackagesDiff
    \/ QueryDiff
    \/ ApiDiff
    \/ WriteInstructions
    \/ UpdatePatchInstructions
    \/ FetchPatchInstructions
    \/ ReadInstructions
    \/ Synchronise
    \/ SynchroniseToPatch
    \/ Merge
    \/ SynchroniseFresh

ChannelSpec == ChannelInit /\ [][ChannelNext]_vars

-----------------------------------------------------------------------------
(* conda_local/graph.py: construct_dependency_graph, the resolver behind   *)
(* conda_local's api.query (deps.py DependencyFinder holds the same code). *)
(* `variant` is "finder".  Nodes are never removed: mark_exclude puts them *)
(* into `excluded`, and successors / predecessors skip excluded nodes.     *)

IncludedSuccessors(E, n) == (Successors(edges, n) \cap nodes) \ E
IncludedPredecessors(E, n) == (Predecessors(edges, n) \cap nodes) \ E

RECURSIVE exclude_orphaned_nodes(_, _), ExcludeOrphanedChildren(_, _),
          ExcludeOrphanedSpecs(_, _)

(* Mutant: no spec is ever excluded for being orphaned. *)
exclude_orphaned_nodes_never(E, spec) == {E}

(* _exclude_orphaned_nodes: the sets `excluded` can be afterwards. *)
exclude_orphaned_nodes(E, spec) ==
    IF spec \in roots \/ IncludedPredecessors(E, spec) # {}
    THEN {E}
    ELSE ExcludeOrphanedChildren(E \cup {spec}, IncludedSuccessors(E \cup {spec}, spec))

(* `for child in graph.successors(spec)`, in any order. *)
ExcludeOrphanedChildren(E, children) ==
    IF children = {}
    THEN {E}
    ELSE UNION {
        LET rest == children \ {child}
        IN  IF child \in E
            THEN ExcludeOrphanedChildren(E, rest)
            ELSE IF IncludedPredecessors(E, child) # {}
            THEN ExcludeOrphanedChildren(E, rest)
            ELSE UNION {ExcludeOrphanedChildren(E1, rest) :
                          E1 \in ExcludeOrphanedSpecs(E \cup {child},
                                      IncludedSuccessors(E \cup {child}, child))}
        : child \in children}

(* A loop calling _exclude_orphaned_nodes on each spec that is still       *)
(* included when the loop reaches it, in any order.                        *)
ExcludeOrphanedSpecs(E, specs) ==
    IF specs = {}
    THEN {E}
    ELSE UNION {
        LET rest == specs \ {spec}
        IN  IF spec \in E
            THEN ExcludeOrphanedSpecs(E, rest)
            ELSE UNION {ExcludeOrphanedSpecs(E1, rest) :
                          E1 \in exclude_orphaned_nodes(E, spec)}
        : spec \in specs}

RECURSIVE exclude_unsatisfied_nodes(_, _), ExcludeParents(_, _),
          ExcludeUnsatisfiedSpecs(_, _)

(* _exclude_unsatisfied_nodes: the sets `excluded` can be afterwards. *)
exclude_unsatisfied_nodes(E, spec) ==
    IF IncludedSuccessors(E, spec) # {}
    THEN {E}
    ELSE ExcludeParents(E \cup {spec}, IncludedPredecessors(E \cup {spec}, spec))

(* `for parent in graph.predecessors(spec)`, in any order. *)
ExcludeParents(E, parents) ==
    IF parents = {}
    THEN {E}
    ELSE UNION {
        LET rest == parents \ {parent}
            marked == E \cup {parent}
        IN  IF parent \in E
            THEN ExcludeParents(E, rest)
            ELSE UNION {
                    UNION {ExcludeParents(E2, rest) :
                             E2 \in ExcludeUnsatisfiedSpecs(E1,
                                        IncludedPredecessors(E1, parent))}
                    : E1 \in ExcludeOrphanedSpecs(marked,
                                 IncludedSuccessors(marked, parent))}
        : parent \in parents}

(* `for grandparent in graph.predecessors(parent)`, in any order. *)
ExcludeUnsatisfiedSpecs(E, specs) ==
    IF specs = {}
    THEN {E}
    ELSE UNION {
        LET rest == specs \ {spec}
        IN  IF spec \in E
            THEN ExcludeUnsatisfiedSpecs(E, rest)
            ELSE UNION {ExcludeUnsatisfiedSpecs(E1, rest) :
                          E1 \in exclude_unsatisfied_nodes(E, spec)}
        : spec \in specs}

FinderSpecChoices == {"a", "b >=2", "b <2"}

(* api.query(channels, subdirs, specs): no exclusions, disposables,        *)
(* latest flag or validation exist in this revision.                       *)
FinderInit ==
    /\ variant = "finder"
    /\ latest = FALSE
    /\ validate = FALSE
    /\ channel \in Bounded(PackageIds, MaxFinderChannel)
    /\ requirements \in Bounded(FinderSpecChoices, MaxFinderSpecs)
    /\ exclusions = {}
    /\ disposables = {}
    /\ FirstCall
    /\ NoStore
    /\ NoAside

(* The spec stream is exhausted; graph.unsatisfied_specs() yields the      *)
(* included specs whose out-degree is 0.                                   *)
EndConstruct ==
    /\ pc = "populate"
    /\ variant = "finder"
    /\ specs_to_process = {}
    /\ pc' = "exclude"
    /\ scan' = {n \in nodes : IsSpecNode(n) /\ Successors(edges, n) = {}}
    /\ UNCHANGED <<aside, store, calls, params, nodes, edges, roots,
                   specs_to_process, specs_processed, result, error, missing>>

(* One iteration of `for spec in graph.unsatisfied_specs()`; the generator *)
(* skips a spec that has been excluded before it is reached.               *)
ExcludeUnsatisfiedNode ==
    /\ pc = "exclude"
    /\ \E spec \in scan :
        /\ scan' = scan \ {spec}
        /\ IF spec \in excluded
           THEN excluded' = excluded
           ELSE excluded' \in exclude_unsatisfied_nodes(excluded, spec)
    /\ UNCHANGED <<not_finder, store, calls, params, pc, nodes, edges, roots,
                   specs_to_process, specs_processed, result, error, missing>>

(* DependencyFinder._extract_records: the included package records. *)
ExtractRecords ==
    /\ pc = "exclude"
    /\ scan = {}
    /\ result' = {n \in nodes : IsPackageNode(n)} \ excluded
    /\ error' = FALSE
    /\ missing' = {}
    /\ pc' = "done"
    /\ UNCHANGED <<aside, store, calls, params, nodes, edges, roots,
                   specs_to_process, specs_processed, scan>>

FinderNext ==
    \/ AddRoots
    \/ ProcessSpec
    \/ EndConstruct
    \/ ExcludeUnsatisfiedNode
    \/ ExtractRecords

FinderSpec == FinderInit /\ [][FinderNext]_vars

-----------------------------------------------------------------------------
(* Update of a target channel, and the order in which the entry points     *)
(* parse their spec strings, query the source and touch the target.        *)
(*   "run_update"             conda_replicate/core.py                      *)
(*   "run_sync"               conda_local/core.py                          *)
(*   "resolve.find_packages"  conda_replicate/resolve.py                   *)
(*   "api.query"              conda_replicate/api.py                       *)
(* The resolver is reduced to what it returns (`resolved`) or raises       *)
(* (`unsatisfiable`); a list of `malformed` makes CondaSpecification raise. *)

UpdateFlows == {"run_update", "run_sync"}
QueryFlows == {"resolve.find_packages", "api.query"}
ParameterLists == {"requirements", "exclusions", "disposables"}

RepodataFile == "noarch/repodata.json"

(* The files a target holds besides packages, by its queryability. *)
MetaOf(t) == IF t = "queryable" THEN {RepodataFile} ELSE {}

(* The instructions a source channel can hold next to an index that       *)
(* serves `records`: conda index has applied them, so no served record is  *)
(* listed under `remove`.                                                  *)
UpstreamInstructions(records) ==
    {i \in [Subdirs -> InstructionChoices] :
        \A r \in records : Fn(r) \notin Parse(i[r.subdir]).remove}

(* _purge_removed_packages after conda index: the files the instructions   *)
(* list under `remove` are moved out of the index and deleted.             *)
Purged(files, instructions) ==
    {f \in files : f[2] \notin Parse(instructions[f[1]]).remove}

UpdateInit ==
    /\ ResolverReturned
    /\ excluded = {}
    /\ NoAdd
    /\ NoFilter /\ NoOrder /\ NoLoad /\ NoStream
    /\ flow \in UpdateFlows \cup QueryFlows
    /\ writer = "none"
    /\ target \in IF flow \in UpdateFlows THEN {"unqueryable", "queryable"}
                  ELSE {"none"}
    /\ resolved \in SUBSET ServedBy("upstream")
    /\ existing \in IF target = "queryable" THEN SUBSET ServedBy("local") ELSE {{}}
    /\ upstream_instructions \in
            IF flow \in UpdateFlows THEN UpstreamInstructions(resolved)
            ELSE {EmptyInstructions}
    /\ patch_instructions = EmptyInstructions
    /\ resolved_before = {}
    /\ to_add = {}
    /\ to_remove = {}
    /\ failure = "none"
    /\ written = {}
    /\ read_back = NothingRead
    /\ step = "start"
    /\ local_files = Files(existing)
    /\ local_index = existing
    /\ patch_files = {}
    /\ patch_summary = NoSummary
    /\ fresh_files = {}
    /\ malformed \in SUBSET ParameterLists
    /\ unsatisfiable \in BOOLEAN
    /\ queried = FALSE
    /\ target_meta = MetaOf(target)

(* target.setup(): the index file is written when it is missing. *)
Setup ==
    /\ flow \in UpdateFlows
    /\ step = "start"
    /\ target_meta' = target_meta \cup {RepodataFile}
    /\ step' = "setup"
    /\ UNCHANGED <<finder, adding, pure, resolver, calls, given, to_add, to_remove, failure,
                   patching, syncing, malformed, unsatisfiable, queried>>

(* resolve_packages / Parameters: the three lists are parsed at once. *)
ParseParameters ==
    /\ flow \in UpdateFlows
    /\ step = "setup"
    /\ IF malformed # {}
       THEN failure' = "invalid_specification" /\ step' = "failed"
       ELSE failure' = failure /\ step' = "parsed"
    /\ UNCHANGED <<finder, adding, pure, resolver, calls, given, to_add, to_remove, patching,
                   syncing, updating>>

(* _InclusionFilter(requirements), then _ExclusionFilter(exclusions). *)
ParseFilters ==
    /\ flow \in QueryFlows
    /\ step = "start"
    /\ IF malformed \cap {"requirements", "exclusions"} # {}
       THEN failure' = "invalid_specification" /\ step' = "failed"
       ELSE failure' = failure /\ step' = "parsed"
    /\ UNCHANGED <<finder, adding, pure, resolver, calls, given, to_add, to_remove, patching,
                   syncing, updating>>

(* _ExclusionFilter(disposables).  find_packages reaches it once the graph *)
(* is built; api.query reaches it after the call resolve_packages(...),    *)
(* which has queried the channel by then unless it is a generator.         *)
ParseDisposables ==
    /\ flow \in QueryFlows
    /\ \/ step = "graphed"
       \/ step = "parsed" /\ flow = "api.query"
    /\ IF "disposables" \in malformed
       THEN failure' = "invalid_specification" /\ step' = "failed"
       ELSE /\ failure' = failure
            /\ step' = IF step = "parsed" THEN "filtered" ELSE "done"
    /\ UNCHANGED <<finder, adding, pure, resolver, calls, given, to_add, to_remove, patching,
                   syncing, updating>>

(* The resolver runs: it queries the source channel and raises             *)
(* UnsatisfiedRequirementsError or returns `resolved`.                     *)
Resolve ==
    /\ flow \in UpdateFlows \cup QueryFlows
    /\ step \in {"parsed", "filtered"}
    /\ queried' = TRUE
    /\ IF unsatisfiable
       THEN /\ failure' = "unsatisfied"
            /\ step' = "failed"
            /\ UNCHANGED <<to_add, to_remove>>
       ELSE /\ failure' = failure
            /\ IF flow \in UpdateFlows
               THEN /\ to_add' = Minus(resolved, local_index)
                    /\ to_remove' = Minus(local_index, resolved)
                    /\ step' = "resolved"
               ELSE /\ UNCHANGED <<to_add, to_remove>>
                    /\ step' = IF step = "filtered" THEN "done" ELSE "graphed"
    /\ UNCHANGED <<finder, adding, pure, resolver, calls, given, patching, syncing, malformed,
                   unsatisfiable, target_meta>>

(* One iteration of `for package in to_add: target.add_package(package)`. *)
AddPackage ==
    /\ flow \in UpdateFlows
    /\ step = "resolved"
    /\ \E package \in to_add :
        /\ File(package) \notin local_files
        /\ local_files' = local_files \cup {File(package)}
    /\ UNCHANGED <<finder, adding, pure, resolver, calls, given, to_add, to_remove, failure,
                   patching, step, local_index, patch_files, patch_summary,
                   fresh_files, updating>>

(* The first loop is over; one iteration of `for package in to_remove`. *)
RemovePackage ==
    /\ flow \in UpdateFlows
    /\ step = "resolved"
    /\ Files(to_add) \subseteq local_files
    /\ \E package \in to_remove :
        /\ File(package) \in local_files
        /\ local_files' = local_files \ {File(package)}
    /\ UNCHANGED <<finder, adding, pure, resolver, calls, given, to_add, to_remove, failure,
                   patching, step, local_index, patch_files, patch_summary,
                   fresh_files, updating>>

(* Mutant: the index is not rebuilt. *)
FinishUpdateKeepingIndex ==
    /\ flow \in UpdateFlows
    /\ step = "resolved"
    /\ Files(to_add) \subseteq local_files
    /\ Files(to_remove) \cap local_files = {}
    /\ target_meta' = target_meta \cup
            {RepodataFile, "patch_instructions.json", "patch_generator.tar.bz2"}
    /\ local_files' = Purged(local_files, upstream_instructions)
    /\ local_index' = local_index
    /\ step' = "done"
    /\ UNCHANGED <<finder, adding, pure, resolver, calls, given, to_add, to_remove, failure,
                   patching, patch_files, patch_summary,
                   fresh_files, malformed, unsatisfiable, queried>>

(* The source's instructions are copied, the patch generator written, the  *)
(* index updated with them and the files they remove purged.               *)
FinishUpdate ==
    /\ flow \in UpdateFlows
    /\ step = "resolved"
    /\ Files(to_add) \subseteq local_files
    /\ Files(to_remove) \cap local_files = {}
    /\ target_meta' = target_meta \cup
            {RepodataFile, "patch_instructions.json", "patch_generator.tar.bz2"}
    /\ local_files' = Purged(local_files, upstream_instructions)
    /\ local_index' = Indexed(Purged(local_files, upstream_instructions))
    /\ step' = "done"
    /\ UNCHANGED <<finder, adding, pure, resolver, calls, given, to_add, to_remove, failure,
                   patching, patch_files, patch_summary,
                   fresh_files, malformed, unsatisfiable, queried>>

UpdateNext ==
    \/ Setup
    \/ ParseParameters
    \/ ParseFilters
    \/ ParseDisposables
    \/ Resolve
    \/ AddPackage
    \/ RemovePackage
    \/ FinishUpdate

UpdateSpec == UpdateInit /\ [][UpdateNext]_vars

-----------------------------------------------------------------------------
(* Storing one package file.                                               *)
(*   "add_package"       CondaChannel.add_package (both revisions)         *)
(*   "fetch_package"     conda_local/patch.py                              *)
(*   "download_package"  conda_local/external.py                           *)
(* Bytes are "record" (the bytes the record describes), "same_size" (other *)
(* bytes of the record's size) or "other" (other bytes of another size).   *)

Contents == {"record", "same_size", "other"}

(* hashlib.sha256(contents).hexdigest(): distinct bytes, distinct digests. *)
Sha256(contents) == contents

(* len(contents) *)
Size(contents) == IF contents = "other" THEN 2 ELSE 1

RecordSha256 == Sha256("record")
RecordSize == Size("record")

(* external.verify_file *)
verify_file(contents) ==
    RecordSha256 = Sha256(contents) /\ RecordSize = Size(contents)

(* fetch_package starts with requests.get, the others with the look at    *)
(* the destination.                                                        *)
EntryOf(f) == IF f = "fetch_package" THEN "download" ELSE "check"

AddInit ==
    /\ ResolverReturned
    /\ NoStore
    /\ excluded = {}
    /\ NoUpdate
    /\ NoFilter /\ NoOrder /\ NoLoad /\ NoStream
    /\ adder \in {"add_package", "fetch_package", "download_package"}
    /\ verify \in IF adder = "download_package" THEN BOOLEAN ELSE {TRUE}
    /\ stored \in Contents \cup {"absent"}
    /\ remote \in Contents
    /\ fetched = "none"
    /\ at = EntryOf(adder)
    /\ outcome = "running"
    /\ stored_before = stored
    /\ writes = 0
    /\ adds = 1

(* The look at the destination: contains_package / path.exists() and the   *)
(* comparison of the digest.                                               *)
CheckExisting ==
    /\ outcome = "running"
    /\ at = "check"
    /\ IF adder = "download_package"
       THEN IF stored # "absent" /\ (~ verify \/ verify_file(stored))
            THEN outcome' = "returned" /\ at' = "end"
            ELSE outcome' = outcome /\ at' = "download"
       ELSE IF stored # "absent" /\ Sha256(stored) = RecordSha256
            THEN outcome' = "returned" /\ at' = "end"
            ELSE /\ outcome' = outcome
                 /\ at' = IF adder = "fetch_package" THEN "verify" ELSE "download"
    /\ UNCHANGED <<finder, updating, pure, resolver, calls, store, adder, verify, stored,
                   remote, fetched, stored_before, writes, adds>>

(* fsspec.open(package.url).read() / requests.get(package.url).content *)
Download ==
    /\ outcome = "running"
    /\ at = "download"
    /\ adder \in {"add_package", "fetch_package"}
    /\ fetched' = remote
    /\ at' = IF adder = "fetch_package" THEN "check" ELSE "verify"
    /\ UNCHANGED <<finder, updating, pure, resolver, calls, store, adder, verify, stored,
                   remote, outcome, stored_before, writes, adds>>

(* Mutant: only the size of the download is compared. *)
VerifyDownloadSizeOnly ==
    /\ outcome = "running"
    /\ at = "verify"
    /\ IF Size(fetched) # RecordSize
       THEN outcome' = "raised" /\ at' = "end"
       ELSE outcome' = outcome /\ at' = "write"
    /\ UNCHANGED <<finder, updating, pure, resolver, calls, store, adder, verify, stored,
                   remote, fetched, stored_before, writes, adds>>

(* The two comparisons that raise BadPackageDownload. *)
VerifyDownload ==
    /\ outcome = "running"
    /\ at = "verify"
    /\ IF Size(fetched) # RecordSize
       THEN outcome' = "raised" /\ at' = "end"
       ELSE IF RecordSha256 # Sha256(fetched)
       THEN outcome' = "raised" /\ at' = "end"
       ELSE outcome' = outcome /\ at' = "write"
    /\ UNCHANGED <<finder, updating, pure, resolver, calls, store, adder, verify, stored,
                   remote, fetched, stored_before, writes, adds>>

(* write_file(package.subdir, package.fn, contents) *)
WriteFile ==
    /\ outcome = "running"
    /\ at = "write"
    /\ stored' = fetched
    /\ writes' = writes + 1
    /\ outcome' = "returned"
    /\ at' = "end"
    /\ UNCHANGED <<finder, updating, pure, resolver, calls, store, adder, verify, remote,
                   fetched, stored_before, adds>>

(* conda.exports._download(url, path, sha256, size): conda's code, not in  *)
(* the repository.  It stores what it downloads and raises when a digest   *)
(* or size it was given does not fit; what the path holds after a raise is *)
(* conda's affair: the former file or the bytes just downloaded.           *)
CondaDownload ==
    /\ outcome = "running"
    /\ at = "download"
    /\ adder = "download_package"
    /\ fetched' = remote
    /\ IF verify /\ ~ verify_file(remote)
       THEN /\ outcome' = "raised"
            /\ \/ stored' = stored /\ writes' = writes
               \/ stored' = remote /\ writes' = writes + 1
       ELSE /\ outcome' = "returned"
            /\ stored' = remote
            /\ writes' = writes + 1
    /\ at' = "end"
    /\ UNCHANGED <<finder, updating, pure, resolver, calls, store, adder, verify, remote,
                   stored_before, adds>>

(* The same package is added once more. *)
AddAgain ==
    /\ outcome # "running"
    /\ adder # "none"
    /\ adds < MaxAdds
    /\ adds' = adds + 1
    /\ outcome' = "running"
    /\ at' = EntryOf(adder)
    /\ fetched' = "none"
    /\ stored_before' = stored
    /\ writes' = 0
    /\ UNCHANGED <<finder, updating, pure, resolver, calls, store, adder, verify, stored,
                   remote>>

AddNext ==
    \/ CheckExisting
    \/ Download
    \/ VerifyDownload
    \/ WriteFile
    \/ CondaDownload
    \/ AddAgain

AddSpec == AddInit /\ [][AddNext]_vars

-----------------------------------------------------------------------------
(* The filters of one channel query with latest-build filtering enabled.   *)
(*   "resolver.find_packages"  conda_replicate/resolver/core.py            *)
(*   "api.query"               conda_replicate/api.py                      *)
(* Both are called without exclusions.                                     *)

(* CondaPackage.timestamp *)
Timestamp(p) ==
    CASE p = "a-1-0" -> 5
      [] p = "a-2-0" -> 2
      [] p = "a-2-1" -> 4
      [] p = "b-1-0" -> 3
      [] p = "b-2-0" -> 1
      [] OTHER -> 1

(* groupby(packages, lambda pkg: (pkg.name, pkg.version, pkg.depends)) *)
BuildGroup(pkgs, p) ==
    {q \in pkgs : Name(q) = Name(p) /\ Version(q) = Version(p)
                    /\ Depends(q) = Depends(p)}

MaxTimestamp(pkgs) ==
    CHOOSE t \in {Timestamp(p) : p \in pkgs} : \A q \in pkgs : Timestamp(q) <= t

LatestBuildFilter(keep_specs, pkgs) ==
    {p \in pkgs :
        \/ \E s \in Group(keep_specs, Name(p)) : Match(s, p)
        \/ Timestamp(p) = MaxTimestamp(BuildGroup(pkgs, p))}

Filter(kind, specs) == [kind |-> kind, specs |-> specs]

(* filters.append(...) under a condition *)
AppendIf(condition, filter) == IF condition THEN <<filter>> ELSE <<>>

(* The list `filters` as each caller builds it; latest_builds is set, and  *)
(* api.query's latest is "all" or "build".                                 *)
FiltersOf(caller) ==
    IF caller = "resolver.find_packages"
    THEN AppendIf(pins # {}, Filter("inclusion", pins))
         \o AppendIf(latest_versions,
                     Filter("latest_version", IF latest_roots THEN {} ELSE pins))
         \o <<Filter("latest_version", IF latest_roots THEN {} ELSE pins)>>
    ELSE AppendIf(pins # {}, Filter("inclusion", pins))
         \o AppendIf(latest_versions,
                     Filter("latest_version", IF latest_roots THEN pins ELSE {}))
         \o <<Filter("latest_build", IF latest_roots THEN pins ELSE {})>>

(* filter_(packages) *)
ApplyOne(filter, pkgs) ==
    CASE filter.kind = "inclusion" -> InclusionFilter(filter.specs, pkgs)
      [] filter.kind = "latest_version" -> LatestVersionFilter(filter.specs, pkgs)
      [] filter.kind = "latest_build" -> LatestBuildFilter(filter.specs, pkgs)

FilterInit ==
    /\ ResolverReturned
    /\ NoStore
    /\ excluded = {}
    /\ NoUpdate
    /\ NoAdd
    /\ NoOrder /\ NoLoad /\ NoStream
    /\ route \in {"resolver.find_packages", "api.query"}
    /\ pins \in {P \in SUBSET SpecStrings : Cardinality(P) <= MaxPins}
    /\ latest_versions \in BOOLEAN
    /\ latest_roots \in BOOLEAN
    /\ \E served \in SUBSET PackageIds, spec \in SpecStrings :
            returned_records = {p \in served : Match(spec, p)}
    /\ filters = <<>>
    /\ passing = {}
    /\ applied = -1

(* The caller builds the filters and the query reads the channel. *)
BuildFilters ==
    /\ route # "none"
    /\ applied = -1
    /\ filters' = FiltersOf(route)
    /\ passing' = returned_records
    /\ applied' = 0
    /\ UNCHANGED <<finder, updating, adding, streaming, ordering, loading, resolver, calls,
                   store, route, pins, latest_versions, latest_roots,
                   returned_records>>

(* for filter_ in filters: packages = filter_(packages) *)
ApplyFilter ==
    /\ applied >= 0
    /\ applied < Len(filters)
    /\ passing' = ApplyOne(filters[applied + 1], passing)
    /\ applied' = applied + 1
    /\ UNCHANGED <<finder, updating, adding, streaming, ordering, loading, resolver, calls,
                   store, route, pins, latest_versions, latest_roots,
                   returned_records, filters>>

FilterNext == BuildFilters \/ ApplyFilter

FilterSpec == FilterInit /\ [][FilterNext]_vars

-----------------------------------------------------------------------------
(* isoconda/version.py: VersionOrder.  A version string is a sequence of   *)
(* characters.                                                             *)

Digits == {"0", "1", "2", "3", "4", "5", "6", "7", "8", "9"}

DigitValue(c) ==
    CASE c = "0" -> 0 [] c = "1" -> 1 [] c = "2" -> 2 [] c = "3" -> 3
      [] c = "4" -> 4 [] c = "5" -> 5 [] c = "6" -> 6 [] c = "7" -> 7
      [] c = "8" -> 8 [] c = "9" -> 9

(* ord(c), for the characters that occur *)
Ord(c) ==
    CASE c = " " -> 32 [] c = "!" -> 33 [] c = "*" -> 42 [] c = "+" -> 43
      [] c = "." -> 46 [] c \in Digits -> 48 + DigitValue(c)
      [] c = "C" -> 67 [] c = "D" -> 68 [] c = "E" -> 69 [] c = "R" -> 82
      [] c = "V" -> 86 [] c = "_" -> 95 [] c = "a" -> 97 [] c = "b" -> 98
      [] c = "c" -> 99 [] c = "d" -> 100 [] c = "e" -> 101 [] c = "o" -> 111
      [] c = "p" -> 112 [] c = "r" -> 114 [] c = "s" -> 115 [] c = "t" -> 116
      [] c = "v" -> 118

(* str.lower() *)
LowerChar(c) ==
    CASE c = "C" -> "c" [] c = "D" -> "d" [] c = "E" -> "e" [] c = "R" -> "r"
      [] c = "V" -> "v" [] OTHER -> c

Lower(str) == [i \in 1..Len(str) |-> LowerChar(str[i])]

(* str.strip() *)
RECURSIVE Strip(_)
Strip(str) ==
    IF str = <<>> THEN str
    ELSE IF Head(str) = " " THEN Strip(Tail(str))
    ELSE IF str[Len(str)] = " " THEN Strip(SubSeq(str, 1, Len(str) - 1))
    ELSE str

(* str.split(sep) *)
RECURSIVE Split(_, _)
Split(str, sep) ==
    IF \A i \in 1..Len(str) : str[i] # sep THEN <<str>>
    ELSE LET k == CHOOSE i \in 1..Len(str) :
                      str[i] = sep /\ \A j \in 1..(i - 1) : str[j] # sep
         IN  <<SubSeq(str, 1, k - 1)>> \o Split(SubSeq(str, k + 1, Len(str)), sep)

(* str.isdigit() and str.isnumeric() *)
IsDigit(str) == str # <<>> /\ \A i \in 1..Len(str) : str[i] \in Digits

(* int(str) *)
RECURSIVE ToInt(_)
ToInt(str) ==
    IF str = <<>> THEN 0
    ELSE 10 * ToInt(SubSeq(str, 1, Len(str) - 1)) + DigitValue(str[Len(str)])

(* The alternatives of COMPONENT_SPLIT: [0-9]+, [*]+, [^0-9*]+ *)
CharClass(c) == IF c \in Digits THEN "digit" ELSE IF c = "*" THEN "star" ELSE "other"

(* COMPONENT_SPLIT.findall(str) *)
RECURSIVE FindAll(_)
FindAll(str) ==
    IF str = <<>> THEN <<>>
    ELSE LET differ == {i \in 1..Len(str) : CharClass(str[i]) # CharClass(str[1])}
             k == IF differ = {} THEN Len(str) + 1
                  ELSE CHOOSE i \in differ : \A j \in differ : i <= j
         IN  <<SubSeq(str, 1, k - 1)>> \o FindAll(SubSeq(str, k, Len(str)))

(* The parts of a parsed component: an int, float("inf") or a str. *)
Int_(n) == [type |-> "int", n |-> n, s |-> <<>>]
Inf == [type |-> "float", n |-> 0, s |-> <<>>]
Str(chars) == [type |-> "str", n |-> 0, s |-> chars]

FILL_VALUE == Int_(0)

Convert(component) ==
    IF IsDigit(component) THEN Int_(ToInt(component))
    ELSE IF component = <<"p", "o", "s", "t">> THEN Inf
    ELSE IF component = <<"d", "e", "v">> THEN Str(<<"D", "E", "V">>)
    ELSE Str(component)

(* The loop body over one element of a section. *)
ParseComponent(str) ==
    LET components == [i \in 1..Len(FindAll(str)) |-> Convert(FindAll(str)[i])]
    IN  IF str[1] \in Digits THEN components ELSE <<FILL_VALUE>> \o components

ParseSection(section) == [k \in 1..Len(section) |-> ParseComponent(section[k])]

ValueError == [raised |-> TRUE, version |-> <<>>, local |-> <<>>]

(* VersionOrder._parse_specs *)
_parse_specs(spec0) ==
    LET spec == Lower(Strip(spec0))
        parts == Split(spec, "!")
        leading == SubSeq(parts, 1, Len(parts) - 1)
        last == parts[Len(parts)]
        epoch == IF leading # <<>> THEN <<leading[1]>> ELSE <<<<"0">>>>
        plus == Split(last, "+")
        first_ == plus[1]
        remaining == Tail(plus)
        local == IF remaining # <<>> THEN Split(first_, ".") ELSE <<>>
        version == epoch \o Split(first_, ".")
    IN  IF spec = <<>> THEN ValueError
        ELSE IF Len(leading) > 1 THEN ValueError
        ELSE IF leading # <<>> /\ ~ IsDigit(leading[1]) THEN ValueError
        ELSE IF Len(remaining) > 1 THEN ValueError
        ELSE IF \E k \in 1..Len(version) : version[k] = <<>> THEN ValueError
        ELSE [raised |-> FALSE, version |-> ParseSection(version),
              local |-> ParseSection(local)]

(* str < str *)
StrLess(a, b) ==
    \E k \in 1..(Len(b)) :
        /\ \A j \in 1..(k - 1) : j <= Len(a) /\ a[j] = b[j]
        /\ \/ k = Len(a) + 1
           \/ k <= Len(a) /\ Ord(a[k]) < Ord(b[k])

(* int < int, with float("inf") above every int *)
NumLess(a, b) ==
    IF a.type = "float" THEN FALSE
    ELSE IF b.type = "float" THEN TRUE
    ELSE a.n < b.n

(* The body of the innermost loop of __lt__: "same" stands for continue.   *)
SubLess(sub1, sub2) ==
    IF sub1 = sub2 THEN "same"
    ELSE IF sub1.type = "str" /\ sub2.type # "str" THEN "True"
    ELSE IF sub1.type # "str" /\ sub2.type = "str" THEN "False"
    ELSE IF sub1.type = "str" THEN (IF StrLess(sub1.s, sub2.s) THEN "True" ELSE "False")
    ELSE IF NumLess(sub1, sub2) THEN "True" ELSE "False"

Longest(a, b) == IF Len(a) >= Len(b) THEN Len(a) ELSE Len(b)

(* zip_longest(a, b, fillvalue=fill)[i] *)
Filled(a, i, fill) == IF i <= Len(a) THEN a[i] ELSE fill

Least(S) == CHOOSE i \in S : \A j \in S : i <= j

(* for sub1, sub2 in zip_longest(comp1, comp2, fillvalue=FILL_VALUE) *)
CompLess(comp1, comp2) ==
    LET sub(i) == SubLess(Filled(comp1, i, FILL_VALUE), Filled(comp2, i, FILL_VALUE))
        differ == {i \in 1..Longest(comp1, comp2) : sub(i) # "same"}
    IN  IF differ = {} THEN "same" ELSE sub(Least(differ))

(* for comp1, comp2 in zip_longest(sec1, sec2, fillvalue=[]) *)
SectionLess(sec1, sec2) ==
    LET comp(i) == CompLess(Filled(sec1, i, <<>>), Filled(sec2, i, <<>>))
        differ == {i \in 1..Longest(sec1, sec2) : comp(i) # "same"}
    IN  IF differ = {} THEN "same" ELSE comp(Least(differ))

(* VersionOrder.__lt__ on two parsed versions *)
__lt__(self, other) ==
    LET version == SectionLess(self.version, other.version)
    IN  IF version # "same" THEN version = "True"
        ELSE SectionLess(self.local, other.local) = "True"

(* VersionOrder.__eq__ on two parsed versions *)
__eq__(self, other) ==
    /\ SectionLess(self.version, other.version) = "same"
    /\ SectionLess(self.local, other.local) = "same"

(* The version strings compared: those of the tests, the suffixes the      *)
(* ordering rules name, local versions, malformed strings, and every       *)
(* string of up to MaxVersionLen characters over a small alphabet.         *)
ListedVersions ==
    {<<"0", ".", "4">>, <<"0", ".", "4", ".", "0">>,
     <<"0", ".", "4", ".", "1", ".", "r", "c">>,
     <<"0", ".", "4", ".", "1", ".", "R", "C">>,
     <<"0", ".", "4", ".", "1">>, <<"0", ".", "5", "a", "1">>,
     <<"0", ".", "5", "b", "3">>, <<"0", ".", "5", "C", "1">>,
     <<"0", ".", "5">>, <<"1", ".", "0">>,
     <<"1", ".", "1", "d", "e", "v", "1">>, <<"1", ".", "1", "_">>,
     <<"1", ".", "1", "a", "1">>,
     <<"1", ".", "1", ".", "0", "d", "e", "v", "1">>,
     <<"1", ".", "1", ".", "d", "e", "v", "1">>,
     <<"1", ".", "1", ".", "a", "1">>,
     <<"1", ".", "1", ".", "0", "r", "c", "1">>,
     <<"1", ".", "1", ".", "0">>, <<"1", ".", "1">>,
     <<"1", ".", "1", ".", "0", "p", "o", "s", "t", "1">>,
     <<"1", ".", "1", ".", "p", "o", "s", "t", "1">>,
     <<"1", ".", "1", "p", "o", "s", "t", "1">>,
     <<"1", "9", "9", "6", ".", "0", "7", ".", "1", "2">>,
     <<"1", "!", "0", ".", "4", ".", "1">>,
     <<"1", "!", "3", ".", "1", ".", "1", ".", "6">>,
     <<"2", "!", "0", ".", "4", ".", "1">>,
     <<"1", ".", "1", "d", "e", "v">>, <<"1", ".", "1", "a">>,
     <<"1", ".", "1", "p", "o", "s", "t">>, <<" ", "1", ".", "1", " ">>,
     <<"1", ".", "*">>, <<"1", ".", "0", "+", "1", "d", "e", "v">>,
     <<"1", ".", "0", "+", "1", "_">>, <<"1", ".", "0", "+", "1", "a">>,
     <<"1", ".", "0", "+", "1">>,
     <<"1", ".", "0", "+", "1", "p", "o", "s", "t">>,
     <<"1", ".", "0", "+", "2">>, <<>>, <<"1", ".", ".", "1">>,
     <<"!", "1">>, <<"1", "!", "2", "!", "3">>, <<"1", "+", "2", "+", "3">>}

ShortChars == {"1", ".", "!", "a", "_"}

ShortVersions ==
    UNION {[1..n -> ShortChars] : n \in 1..MaxVersionLen}

VersionStrings == ListedVersions \cup ShortVersions

Parsed == [v \in VersionStrings |-> _parse_specs(v)]

Valid == {v \in VersionStrings : ~ Parsed[v].raised}

Less == [v \in Valid, w \in Valid |-> __lt__(Parsed[v], Parsed[w])]

OrderInit ==
    /\ ResolverReturned
    /\ NoStore
    /\ excluded = {}
    /\ NoUpdate
    /\ NoAdd
    /\ NoFilter /\ NoLoad /\ NoStream
    /\ lhs \in VersionStrings
    /\ rhs \in VersionStrings
    /\ compared = NotCompared

(* VersionOrder(lhs) and VersionOrder(rhs) are built and compared. *)
Compare ==
    /\ ~ compared.done
    /\ compared' =
            IF Parsed[lhs].raised \/ Parsed[rhs].raised
            THEN [NotCompared EXCEPT !.done = TRUE, !.raised = TRUE]
            ELSE [done |-> TRUE, raised |-> FALSE,
                  lt |-> __lt__(Parsed[lhs], Parsed[rhs]),
                  gt |-> __lt__(Parsed[rhs], Parsed[lhs]),
                  eq |-> __eq__(Parsed[lhs], Parsed[rhs])]
    /\ UNCHANGED <<finder, updating, adding, streaming, filtering, loading, resolver, calls,
                   store, lhs, rhs>>

OrderNext == Compare

OrderSpec == OrderInit /\ [][OrderNext]_vars

-----------------------------------------------------------------------------
(* isoconda/repo.py: RepoData.from_data.                                   *)

(* One item of `packages` or `packages.conda`: the filename and the        *)
(* identity key (subdir, name, version, build_number, build) of its data.  *)
Entry(filename, pkey) == [filename |-> filename, pkey |-> pkey]

(* The third names a file whose data repeat the identity of the first.     *)
TarballEntries ==
    {Entry("a-1-0.tar.bz2", "a-1-0"), Entry("b-1-0.tar.bz2", "b-1-0"),
     Entry("a-1-0_.tar.bz2", "a-1-0")}

CondaEntries ==
    {Entry("a-1-0.conda", "a-1-0"), Entry("b-1-0.conda", "b-1-0"),
     Entry("c-1-0.conda", "c-1-0")}

(* The items of a map: no filename twice, any order. *)
Items(entries) ==
    {items \in UNION {[1..n -> entries] : n \in 0..MaxEntries} :
        \A i \in 1..Len(items), j \in 1..Len(items) :
            i # j => items[i].filename # items[j].filename}

(* Mutant: `packages` is always read first. *)
KeysIgnoringPreference(prefer) == <<"packages", "packages.conda">>

(* keys, reversed if prefer_conda *)
Keys(prefer) ==
    IF prefer THEN <<"packages.conda", "packages">>
    ELSE <<"packages", "packages.conda">>

(* The identity keys in the WeakSet `packages`: those of the records kept. *)
KeptKeys == {package_groups[i].pkey : i \in 1..Len(package_groups)}

LoadInit ==
    /\ ResolverReturned
    /\ NoStore
    /\ excluded = {}
    /\ NoUpdate
    /\ NoAdd
    /\ NoFilter /\ NoOrder /\ NoStream
    /\ \E version \in {1, 2}, packages \in Items(TarballEntries),
          conda \in Items(CondaEntries) :
            repodata = RepodataDict(version, packages, conda)
    /\ prefer_conda \in BOOLEAN
    /\ key_order = <<>>
    /\ cursor = 0
    /\ package_groups = <<>>
    /\ load_error = "pending"

(* The check of the schema version and the choice of the order of keys. *)
CheckVersion ==
    /\ load_error = "pending"
    /\ IF repodata["repodata_version"] # 1
       THEN load_error' = "InvalidRepo" /\ key_order' = <<>>
       ELSE load_error' = "none" /\ key_order' = Keys(prefer_conda)
    /\ UNCHANGED <<finder, updating, adding, streaming, filtering, ordering, resolver, calls,
                   store, repodata, prefer_conda, cursor, package_groups>>

(* One turn of the inner loop. *)
ReadEntry ==
    /\ key_order # <<>>
    /\ cursor < Len(repodata[Head(key_order)])
    /\ LET package == repodata[Head(key_order)][cursor + 1]
       IN  package_groups' =
               IF package.pkey \notin KeptKeys
               THEN Append(package_groups, package)
               ELSE package_groups
    /\ cursor' = cursor + 1
    /\ UNCHANGED <<finder, updating, adding, streaming, filtering, ordering, resolver, calls,
                   store, repodata, prefer_conda, key_order, load_error>>

(* One turn of the outer loop ends. *)
NextKey ==
    /\ key_order # <<>>
    /\ cursor = Len(repodata[Head(key_order)])
    /\ key_order' = Tail(key_order)
    /\ cursor' = 0
    /\ UNCHANGED <<finder, updating, adding, streaming, filtering, ordering, resolver, calls,
                   store, repodata, prefer_conda, package_groups, load_error>>

LoadNext == CheckVersion \/ ReadEntry \/ NextKey

LoadSpec == LoadInit /\ [][LoadNext]_vars

-----------------------------------------------------------------------------
(* Vocabulary of the properties.                                           *)


(* The package records left in the graph. *)
GraphPackages == {n \in nodes : IsPackageNode(n)}

(* A name is a disposable name when D holds a spec of that name. *)
DisposableName(name) == Group(disposables, name) # {}

-----------------------------------------------------------------------------
(* C1 (as stated): whenever resolution succeeds, every dependency string   *)
(* of every returned record is matched by a returned record, unless the    *)
(* record's own name is a disposable name.                                 *)
C1_ClosureAsStated ==
    Succeeded =>
        \A r \in result : \A d \in DependsSet(r) :
            \/ DisposableName(Name(r))
            \/ \E r2 \in result : Match(d, r2)

(* C1 (amended): whenever resolution succeeds, every dependency string of  *)
(* every returned record is matched by a returned record or by a record    *)
(* that survived pruning and was dropped at extraction as disposable.      *)
C1_Closure ==
    Succeeded =>
        \A r \in result : \A d \in DependsSet(r) :
            \/ \E r2 \in result : Match(d, r2)
            \/ \E r2 \in GraphPackages : Match(d, r2) /\ is_disposable(r2)

(* A returned record has a dependency that only a disposable record meets. *)
C1_Witness ==
    /\ Succeeded
    /\ \E r \in result : \E d \in DependsSet(r) :
        /\ ~ \E r2 \in result : Match(d, r2)
        /\ \E r2 \in GraphPackages : Match(d, r2) /\ is_disposable(r2)

-----------------------------------------------------------------------------
(* Requirement specs that no record left in the graph matches, and         *)
(* requirement specs left without a candidate edge.                        *)
RootsWithoutMatch == {s \in requirements : ~ \E r \in GraphPackages : Match(s, r)}
RootsWithoutEdge == {s \in requirements : s \notin nodes \/ Successors(edges, s) = {}}

-----------------------------------------------------------------------------
(* C3 (as stated): whenever resolution succeeds, every requirement spec is *)
(* matched by a returned record unless its name is a disposable name.      *)
C3_RequirementSatisfactionAsStated ==
    Succeeded =>
        \A s \in requirements :
            \/ \E r \in result : Match(s, r)
            \/ DisposableName(SpecName(s))

(* C3 (amended): whenever a validating resolution succeeds, every          *)
(* requirement spec is matched by a returned record unless its name is a   *)
(* disposable name.                                                        *)
C3_RequirementSatisfaction ==
    Succeeded /\ validate =>
        \A s \in requirements :
            \/ \E r \in result : Match(s, r)
            \/ DisposableName(SpecName(s))

(* A validating success in which a requirement lost a candidate to         *)
(* pruning and another candidate is returned for it.                       *)
C3_Witness ==
    /\ Succeeded /\ validate
    /\ \E s \in requirements :
        /\ \E r \in result : Match(s, r)
        /\ \E q \in Candidates(s) : q \notin GraphPackages

-----------------------------------------------------------------------------
(* C4: every returned record matches every requirement spec of its own     *)
(* package name, also when it was reached only through a dependency.       *)
C4_RequirementBounding ==
    Succeeded =>
        \A r \in result : \A s \in Group(requirements, Name(r)) : Match(s, r)

(* A returned record depends on a spec whose matches in the channel are    *)
(* partly rejected by a requirement of their name and partly returned.     *)
C4_Witness ==
    /\ Succeeded
    /\ \E r \in result : \E d \in DependsSet(r) :
        /\ \E q \in ChannelQuery(d) :
                q \notin result /\ \E s \in Group(requirements, Name(q)) : ~ Match(s, q)
        /\ \E q \in ChannelQuery(d) : q \in result /\ Group(requirements, Name(q)) # {}

-----------------------------------------------------------------------------
(* C5: no returned record is matched by an exclusion spec of its own       *)
(* package name, also when it was reached only through a dependency.       *)
C5_Exclusion ==
    Succeeded =>
        \A r \in result : ~ \E x \in Group(exclusions, Name(r)) : Match(x, r)

(* A returned record depends on a spec one of whose matches is excluded. *)
C5_Witness ==
    /\ Succeeded
    /\ \E r \in result : \E d \in DependsSet(r) :
        \E q \in ChannelQuery(d) :
            /\ q \notin result
            /\ \E x \in Group(exclusions, Name(q)) : Match(x, q)

-----------------------------------------------------------------------------
(* C6: no returned record is matched by a disposable spec of its own       *)
(* package name.                                                           *)
C6_Disposal ==
    Succeeded =>
        \A r \in result : ~ \E s \in Group(disposables, Name(r)) : Match(s, r)

(* A disposable record survived pruning and the result leaves it out. *)
C6_Witness ==
    /\ Succeeded
    /\ result # {}
    /\ \E q \in GraphPackages : is_disposable(q) /\ q \notin result

-----------------------------------------------------------------------------
(* C7: disposable records take part in construction and pruning; a record  *)
(* accepted for a requirement whose dependencies are each met by accepted  *)
(* records without dependencies is returned, also when those records are   *)
(* disposable, and the result is the surviving records minus the           *)
(* disposable ones.                                                        *)
DependencyFree(d) ==
    /\ ChannelQuery(d) # {}
    /\ \A b \in ChannelQuery(d) : ~ is_constrained(b) /\ Depends(b) = <<>>

C7_DisposablesParticipate ==
    Succeeded =>
        /\ \A a \in channel :
                (/\ \E s \in requirements : a \in Candidates(s)
                 /\ ~ is_disposable(a)
                 /\ \A d \in DependsSet(a) : DependencyFree(d))
                => a \in result
        /\ result = {p \in GraphPackages : ~ is_disposable(p)}

(* A returned record has a dependency whose only matches are disposable. *)
C7_Witness ==
    /\ Succeeded
    /\ \E a \in result : \E d \in DependsSet(a) :
        /\ \E s \in requirements : a \in Candidates(s)
        /\ \A e \in DependsSet(a) : DependencyFree(e)
        /\ \A b \in ChannelQuery(d) : is_disposable(b) /\ b \notin result

-----------------------------------------------------------------------------
(* C8: every returned record is reachable from a requirement spec through  *)
(* the edges that survived pruning, also when it lies on a dependency      *)
(* cycle.                                                                  *)
C8_ReachableFromRequirements ==
    Succeeded => result \subseteq Reach(edges, requirements \cap nodes)

-----------------------------------------------------------------------------
(* The largest set of candidate records in which every dependency string   *)
(* of every member has a candidate in the set, and the records reachable   *)
(* from the requirements inside it.                                        *)
AllCandidates == UNION {Candidates(s) : s \in SpecStrings}

RECURSIVE LargestClosed(_)
LargestClosed(S) ==
    LET T == {r \in S : \A d \in DependsSet(r) : Candidates(d) \cap S # {}}
    IN  IF T = S THEN S ELSE LargestClosed(T)

RECURSIVE ReachableInside(_, _)
ReachableInside(S, seen) ==
    LET more == seen \cup
                UNION {UNION {Candidates(d) \cap S : d \in DependsSet(r)} : r \in seen}
    IN  IF more = seen THEN seen ELSE ReachableInside(S, more)

ExpectedRecords ==
    LET S == LargestClosed(AllCandidates)
    IN  ReachableInside(S, UNION {Candidates(s) \cap S : s \in requirements})

(* C9: the returned records are exactly the (non-disposable) records       *)
(* reachable from the requirements inside the largest closed set of        *)
(* candidate records.                                                      *)
C9_PrunesNoMoreThanNeeded ==
    Succeeded => result = {r \in ExpectedRecords : ~ is_disposable(r)}

-----------------------------------------------------------------------------
(* C10: if A is a candidate of a requirement, B a candidate of a           *)
(* dependency of A and A a candidate of a dependency of B, and every       *)
(* dependency of A and of B has a candidate that is A, B or a record       *)
(* without dependencies, then a successful resolution returns A and B      *)
(* (unless disposable) and a failed one does not report A's requirement.   *)
CycleSatisfied(A, B) ==
    /\ \E d \in DependsSet(A) : B \in Candidates(d)
    /\ \E d \in DependsSet(B) : A \in Candidates(d)
    /\ \A d \in DependsSet(A) \cup DependsSet(B) :
        \E c \in Candidates(d) : c \in {A, B} \/ Depends(c) = <<>>

C10_CycleResolved ==
    Done =>
        \A A \in channel : \A B \in channel \ {A} :
            \A s \in requirements :
                (A \in Candidates(s) /\ CycleSatisfied(A, B)) =>
                    /\ Succeeded => {p \in {A, B} : ~ is_disposable(p)} \subseteq result
                    /\ Failed => s \notin missing /\ SpecName(s) \notin missing

(* Both records of a dependency cycle are returned. *)
C10_Witness ==
    /\ Succeeded
    /\ \E A \in result : \E B \in result \ {A} :
        /\ \E s \in requirements : A \in Candidates(s)
        /\ CycleSatisfied(A, B)

-----------------------------------------------------------------------------
(* Two records of the channel that depend on each other. *)
MutuallyDependent(p, q) ==
    /\ \E d \in DependsSet(p) : Match(d, q)
    /\ \E d \in DependsSet(q) : Match(d, p)

(* C11: for every channel index and every R, X and D, graph expansion and  *)
(* both pruning passes terminate, also when the dependency strings form    *)
(* cycles: every run of the resolver reaches its end.                      *)
C11_Terminates == <>Done

(* A run has ended after expanding two records that depend on each other   *)
(* and after pruning removed a part of the expanded graph.                 *)
C11_Witness ==
    /\ Done
    /\ \E p \in channel : \E q \in channel \ {p} :
        /\ MutuallyDependent(p, q)
        /\ DependsSet(p) \cup DependsSet(q) \subseteq specs_processed
    /\ \E s \in specs_processed : s \notin nodes

-----------------------------------------------------------------------------
(* The outcome as a function of the inputs alone: the expanded graph, the  *)
(* records no chain of dependencies leads from to a spec without           *)
(* candidates, and what the second pruning pass leaves of them.            *)
PopulatedRecords ==
    ReachableInside(AllCandidates, UNION {Candidates(s) : s \in requirements})

PopulatedSpecs == requirements \cup UNION {DependsSet(r) : r \in PopulatedRecords}

SatisfiedGraph ==
    LET recs == LargestClosed(PopulatedRecords)
        specs == {s \in PopulatedSpecs : Candidates(s) \cap recs # {}}
    IN  Graph(specs \cup recs,
              UNION {{<<s, r>> : r \in Candidates(s) \cap recs} : s \in specs}
              \cup UNION {{<<r, d>> : d \in DependsSet(r)} : r \in recs})

RECURSIVE Unorphaned(_)
Unorphaned(G) ==
    LET keep == {n \in G.nodes : n \in requirements \/ Predecessors(G.edges, n) # {}}
    IN  IF keep = G.nodes THEN G
        ELSE Unorphaned(Graph(keep, {e \in G.edges : e[1] \in keep /\ e[2] \in keep}))

ResolvedNodes ==
    IF variant = "replicate"
    THEN Connected(SatisfiedGraph, requirements)
    ELSE Unorphaned(SatisfiedGraph).nodes

ResolvedRecords == {n \in ResolvedNodes : IsPackageNode(n)}

ResolvedMissing ==
    IF variant = "replicate" THEN {s \in requirements : s \notin ResolvedNodes}
    ELSE IF validate
         THEN {SpecName(s) : s \in requirements} \ {Name(r) : r \in ResolvedRecords}
         ELSE {}

ResolvedResult ==
    IF ResolvedMissing # {} THEN {}
    ELSE {r \in ResolvedRecords : ~ is_disposable(r)}

(* C12: resolution is deterministic: the outcome of every run (the         *)
(* returned set, or the failure and its missing list) is the same function *)
(* of the channel contents, R, X, D and the flags, whatever order the      *)
(* pending specs are taken in and whatever order the pruning scans visit   *)
(* the nodes in.                                                           *)
C12_Deterministic ==
    Done =>
        /\ result = ResolvedResult
        /\ missing = ResolvedMissing
        /\ error <=> ResolvedMissing # {}

(* A run returned records after an expansion of three or more specs and    *)
(* after both pruning passes removed nodes, each in an order of its own.   *)
C12_Witness ==
    /\ Succeeded
    /\ result # {}
    /\ Cardinality(specs_processed) >= 3
    /\ Cardinality(PopulatedRecords \ LargestClosed(PopulatedRecords)) >= 2
    /\ variant = "local" /\ Unorphaned(SatisfiedGraph) # SatisfiedGraph

-----------------------------------------------------------------------------
(* The second of two calls has returned, and so had the first. *)
BothSucceeded(how) == Succeeded /\ run = 2 /\ change = how

(* C15 (as stated): adding a spec to the exclusions can only shrink the    *)
(* result whenever both resolutions succeed, also with latest-version      *)
(* filtering.                                                              *)
C15_ExclusionShrinksAsStated ==
    BothSucceeded("exclude") => result \subseteq first.result

(* C15 (amended): adding a spec to the exclusions can only shrink the      *)
(* result whenever both resolutions succeed and find_packages does not     *)
(* filter for the latest version.                                          *)
C15_ExclusionShrinks ==
    BothSucceeded("exclude") /\ ~ (variant = "replicate" /\ latest) =>
        result \subseteq first.result

(* The added exclusion removed a record and, with it, a record that        *)
(* depended on it; other records are still returned.                       *)
C15_Witness ==
    /\ BothSucceeded("exclude")
    /\ ~ (variant = "replicate" /\ latest)
    /\ result # {}
    /\ \E r \in first.result \ result : \E x \in exclusions : Match(x, r)
    /\ \E r \in first.result \ result : ~ \E x \in exclusions : Match(x, r)

-----------------------------------------------------------------------------
(* The requirement spec the second call added. *)
AddedRequirements == requirements \ first.requirements

(* A spec that rejects no record of its name that the other requirement    *)
(* specs accept.                                                           *)
RejectsNothing(s) ==
    \A p \in channel :
        (Name(p) = SpecName(s) /\ \A t \in Group(first.requirements, Name(p)) : Match(t, p))
        => Match(s, p)

(* C16 (as stated): removing a spec from the requirements can only shrink  *)
(* the result whenever both resolutions succeed: the result for R \ {s}    *)
(* (first call) is within the result for R (second call).                  *)
C16_RequirementShrinksAsStated ==
    BothSucceeded("require") => first.result \subseteq result

(* C16 (amended): removing a spec s from the requirements can only shrink  *)
(* the result whenever both resolutions succeed and s rejects no record of *)
(* its package name that the remaining requirement specs accept.           *)
C16_RequirementShrinks ==
    BothSucceeded("require") /\ (\A s \in AddedRequirements : RejectsNothing(s)) =>
        first.result \subseteq result

(* Without the spec, records it alone led to are no longer returned while  *)
(* others still are.                                                       *)
C16_Witness ==
    /\ BothSucceeded("require")
    /\ \A s \in AddedRequirements : RejectsNothing(s)
    /\ first.result # {}
    /\ first.result # result

-----------------------------------------------------------------------------
(* C20: a resolution result is a fixed point: resolving R and X against a  *)
(* channel that holds exactly the records a successful resolution without  *)
(* disposables returned succeeds and returns every record of that channel. *)
C20_ResultIsFixedPoint ==
    Done /\ run = 2 /\ change = "result" =>
        Succeeded /\ channel \subseteq result

-----------------------------------------------------------------------------
(* The difference against the target channel.                              *)

(* The identity of a record, field by field. *)
SameIdentity(r, q) ==
    /\ r.subdir = q.subdir
    /\ Name(r.id) = Name(q.id)
    /\ Version(r.id) = Version(q.id)
    /\ BuildNumber(r.id) = BuildNumber(q.id)
    /\ Build(r.id) = Build(q.id)

Without(A, B) == {a \in A : ~ \E b \in B : SameIdentity(a, b)}

DiffFlows == {"find_packages", "query", "diff"}

Differenced == flow \in DiffFlows /\ step # "start"

GivenUnqueryable == target = "unqueryable"

C14_ChannelIndependentIdentity ==
    /\ \A r \in resolved : \A l \in existing :
            SameIdentity(r, l) => Equal(r, l) /\ Hash(r) = Hash(l)
    /\ (/\ Differenced
        /\ target = "queryable"
        /\ \A r \in resolved : \E l \in existing : SameIdentity(r, l)
        /\ \A l \in existing : \E r \in resolved : SameIdentity(r, l))
            => to_add = {} /\ to_remove = {}

C14_Witness ==
    /\ flow = "diff"
    /\ step = "diffed"
    /\ target = "queryable"
    /\ Cardinality(resolved) >= 2
    /\ \A r \in resolved : r.channel = "upstream"
    /\ \A l \in existing : l.channel = "local"
    /\ \A r \in resolved : \E l \in existing : SameIdentity(r, l)
    /\ \A l \in existing : \E r \in resolved : SameIdentity(r, l)
    /\ to_add = {}
    /\ to_remove = {}

-----------------------------------------------------------------------------
(* Patch instructions.                                                     *)

RemovedFrom(sd) == {Fn(r) : r \in {q \in to_remove : q.subdir = sd}}

(* C17: for each subdir whose patch instructions create_patch / run_patch  *)
(* has written, they are the upstream instructions of the subdir with the  *)
(* filenames of the to_remove records of that subdir, and of no other      *)
(* subdir, added to `remove`, and nothing else changed.                    *)
C17_RemoveOnlyOwnSubdir ==
    writer = "write_instructions" =>
        \A sd \in written :
            Parse(patch_instructions[sd]) =
                [Parse(upstream_instructions[sd]) EXCEPT
                    !.remove = @ \cup RemovedFrom(sd)]

(* The filenames the writer of the flow is handed for a subdir. *)
HandedToWriter(sd) ==
    IF writer = "write_instructions"
    THEN {Fn(r) : r \in to_remove}
    ELSE RemovedFrom(sd)

(* C18: once the filenames are written into the patch instructions of a    *)
(* subdir and the instructions are read back, `remove` is the union of     *)
(* what it held before and the filenames written, whatever the prior       *)
(* content, instructions without a `remove` entry included.                *)
C18_RemoveIsUnion ==
    \A sd \in DOMAIN read_back :
        /\ failure # "key_error"
        /\ read_back[sd].remove =
                Parse(upstream_instructions[sd]).remove \cup HandedToWriter(sd)

-----------------------------------------------------------------------------
(* Synchronise, patch, merge.                                              *)

-----------------------------------------------------------------------------
(* Resolution without validation, without requirements, after pruning.     *)

(* C24: with validate=False resolve_packages never raises                  *)
(* UnsatisfiedRequirementsError, and a requirement that kept no candidate  *)
(* contributes no record: every returned record is a candidate of a spec   *)
(* that is still in the graph, and is matched by it.                       *)
C24_NeverRaisesWithoutValidate ==
    variant = "local" /\ ~ validate /\ Done =>
        /\ ~ error
        /\ missing = {}
        /\ \A p \in result :
                \E s \in nodes :
                    IsSpecNode(s) /\ <<s, p>> \in edges /\ Match(s, p)

C24_Witness ==
    /\ variant = "local"
    /\ ~ validate
    /\ Done
    /\ ~ error
    /\ result # {}
    /\ \E s \in requirements : s \notin nodes /\ ChannelQuery(s) = {}

(* C26: with an empty requirement set the resolution succeeds and returns  *)
(* the empty set, whatever the channel, the exclusions and disposables.    *)
C26_EmptyRequirements ==
    Done /\ requirements = {} => ~ error /\ result = {}

C26_Witness ==
    /\ Done
    /\ requirements = {}
    /\ Cardinality(channel) >= 3
    /\ exclusions \cup disposables # {}
    /\ ~ error
    /\ result = {}

PruningCompleted ==
    \/ pc \in {"verify", "done"}
    \/ pc = "orphaned" /\ scan = {}

(* C30: after both pruning passes every spec node left in the graph has an *)
(* outgoing candidate edge to a record that is still in the graph.         *)
C30_RemainingSpecsSatisfied ==
    PruningCompleted =>
        \A n \in nodes :
            IsSpecNode(n) =>
                \E p \in Successors(edges, n) : p \in nodes /\ IsPackageNode(p)

C30_Witness ==
    /\ PruningCompleted
    /\ \E n \in nodes : IsSpecNode(n) /\ n \notin roots
    /\ \E s \in specs_processed : s \notin nodes
    /\ \E p \in GraphPackages : Depends(p) # <<>>

-----------------------------------------------------------------------------
(* Contradicting requirements.                                             *)

(* The requirements are specs of one package name that no single record    *)
(* of the channel matches all at once, while each matches some record.     *)
Contradiction ==
    /\ Cardinality(requirements) >= 2
    /\ \A s, t \in requirements : SpecName(s) = SpecName(t)
    /\ ~ \E p \in channel : \A s \in requirements : Match(s, p)

ContradictedNames == {SpecName(s) : s \in requirements}

(* C25: under contradicting requirements no record of the contradicted     *)
(* name ever becomes a candidate, and query returns the empty set without  *)
(* raising.                                                                *)
C25_ContradictionGivesNothing ==
    variant = "finder" /\ Contradiction =>
        /\ \A p \in GraphPackages : Name(p) \notin ContradictedNames
        /\ ~ error
        /\ Done => result = {}

C25_Witness ==
    /\ variant = "finder"
    /\ Contradiction
    /\ Done
    /\ \A s \in requirements : ChannelQuery(s) # {}
    /\ result = {}
    /\ excluded = requirements

-----------------------------------------------------------------------------
(* Failures of an update.                                                  *)

(* C21: if the resolution of an update fails, no file or directory of the  *)
(* target channel has been created, modified or deleted.                   *)
C21_FailureLeavesTargetUntouched ==
    flow \in UpdateFlows /\ failure # "none" =>
        /\ target_meta = MetaOf(target)
        /\ local_files = Files(existing)

(* C23: a malformed spec string among the requirements, exclusions or      *)
(* disposables is rejected with the invalid-specification error before any *)
(* query goes to the channel and before any package is added or removed.   *)
C23_MalformedRejectedFirst ==
    flow \in UpdateFlows \cup QueryFlows /\ malformed # {} =>
        /\ ~ queried
        /\ local_files = Files(existing)
        /\ step \in {"failed", "done"} => failure = "invalid_specification"

-----------------------------------------------------------------------------
(* Adding a package.                                                       *)

HeldBefore == stored_before # "absent" /\ Sha256(stored_before) = RecordSha256

DownloadUnfit == fetched # "none" /\ ~ verify_file(fetched)

Ended == outcome # "running" /\ adder # "none"

(* C22 as stated, for every function that adds a package: a destination    *)
(* that holds the file with the record's sha256 is not written; a download *)
(* that does not fit the record's size or sha256 makes the call raise and  *)
(* leaves the destination as it was; after a normal return the stored      *)
(* file has the record's sha256.                                           *)
C22_AddPackageAsStated ==
    /\ HeldBefore => writes = 0
    /\ Ended /\ ~ HeldBefore /\ DownloadUnfit =>
            outcome = "raised" /\ stored = stored_before
    /\ Ended /\ outcome = "returned" =>
            stored # "absent" /\ Sha256(stored) = RecordSha256

(* C22 amended: all three hold for add_package and fetch_package;          *)
(* download_package with verify=True skips a fitting file, raises on an    *)
(* unfit download and returns only with the record's sha256 stored, but    *)
(* what it leaves at the destination when it raises is up to conda;        *)
(* download_package with verify=False checks nothing and only guarantees   *)
(* that an existing file is never rewritten.                               *)
C22_AddPackage ==
    /\ HeldBefore => writes = 0
    /\ adder \in {"add_package", "fetch_package"} =>
        /\ Ended /\ ~ HeldBefore /\ DownloadUnfit =>
                outcome = "raised" /\ stored = stored_before
        /\ Ended /\ outcome = "returned" =>
                stored # "absent" /\ Sha256(stored) = RecordSha256
    /\ adder = "download_package" /\ verify =>
        /\ Ended /\ ~ HeldBefore /\ DownloadUnfit => outcome = "raised"
        /\ Ended /\ outcome = "returned" =>
                stored # "absent" /\ Sha256(stored) = RecordSha256
    /\ adder = "download_package" /\ ~ verify =>
        /\ outcome # "raised"
        /\ stored_before # "absent" => writes = 0 /\ stored = stored_before

C22_Witness ==
    /\ adder = "add_package"
    /\ adds = 2
    /\ Ended
    /\ outcome = "returned"
    /\ HeldBefore
    /\ writes = 0
    /\ stored = "record"

-----------------------------------------------------------------------------
(* Latest-build filtering.                                                 *)

(* The records that reach the last filter of the query, and the specs that *)
(* filter was given.                                                       *)
BeforeLatestBuild ==
    IF pins # {} THEN InclusionFilter(pins, returned_records) ELSE returned_records

PinSet == filters[Len(filters)].specs

(* C27: with latest-build filtering enabled (and latest-version filtering  *)
(* not), a record that reaches the latest-build filter is kept exactly     *)
(* when it has the maximum timestamp among the records sharing its (name,  *)
(* version, depends), or its name is pinned and it matches a pin.          *)
C27_LatestBuildKept ==
    (applied >= 1 /\ applied = Len(filters) /\ ~ latest_versions) =>
        \A p \in BeforeLatestBuild :
            p \in passing <=>
                \/ Timestamp(p) = MaxTimestamp(BuildGroup(BeforeLatestBuild, p))
                \/ \E s \in Group(PinSet, Name(p)) : Match(s, p)

-----------------------------------------------------------------------------
(* Version ordering.                                                       *)

Ordered == compared.done /\ ~ compared.raised

(* What may follow a digit inside a component, lowest first: dev, "_", a   *)
(* letter, nothing (a number), post.                                       *)
SuffixRank(suffix) ==
    CASE suffix = <<"d", "e", "v">> -> 1
      [] suffix = <<"_">> -> 2
      [] suffix = <<"a">> -> 3
      [] suffix = <<>> -> 4
      [] suffix = <<"p", "o", "s", "t">> -> 5

Suffixes == {<<"d", "e", "v">>, <<"_">>, <<"a">>, <<>>, <<"p", "o", "s", "t">>}

EndsWithDigit(str) == str # <<>> /\ str[Len(str)] \in Digits

Epoch(v) == Parsed[v].version[1][1].n

(* C28: on well-formed version strings exactly one of a < b, a == b,       *)
(* b < a holds and < is transitive; strings that differ only in case are   *)
(* equal; a string equals itself with ".0" appended; a lower epoch is      *)
(* less; and of two strings that continue the same digit-ended string      *)
(* with dev, "_", a letter, nothing or post, the one with the earlier      *)
(* continuation is less.                                                   *)
C28_VersionOrder ==
    Ordered =>
        /\ (compared.lt /\ ~ compared.eq /\ ~ compared.gt)
            \/ (~ compared.lt /\ compared.eq /\ ~ compared.gt)
            \/ (~ compared.lt /\ ~ compared.eq /\ compared.gt)
        /\ compared.lt => \A v \in Valid : Less[rhs, v] => Less[lhs, v]
        /\ compared.eq => \A v \in Valid : Less[lhs, v] = Less[rhs, v]
        /\ Lower(lhs) = Lower(rhs) => compared.eq
        /\ rhs = lhs \o <<".", "0">> => compared.eq
        /\ Epoch(lhs) < Epoch(rhs) => compared.lt
        /\ \A base \in Valid, s1 \in Suffixes, s2 \in Suffixes :
                (/\ EndsWithDigit(base)
                 /\ lhs = base \o s1
                 /\ rhs = base \o s2
                 /\ SuffixRank(s1) < SuffixRank(s2)) => compared.lt

-----------------------------------------------------------------------------
(* Loading repodata.                                                       *)

Loaded == load_error = "none" /\ key_order = <<>>

EntriesOf(key) == {repodata[key][i] : i \in 1..Len(repodata[key])}

Kept == {package_groups[i] : i \in 1..Len(package_groups)}

KeysUnder(key) == {e.pkey : e \in EntriesOf(key)}

UnderBoth == KeysUnder("packages") \cap KeysUnder("packages.conda")

(* No map of the input holds an identity key under two filenames. *)
OncePerMap ==
    \A key \in {"packages", "packages.conda"} :
        \A e \in EntriesOf(key), f \in EntriesOf(key) :
            e.pkey = f.pkey => e = f

Preferred == IF prefer_conda THEN "packages.conda" ELSE "packages"

(* C29: after loading, every identity key of the input has exactly one     *)
(* record; for a key under both `packages` and `packages.conda` that       *)
(* record is the one of the map prefer_conda names; and when no map holds  *)
(* a key twice the records kept are a function of the two sets of entries  *)
(* and prefer_conda, whatever the order of the entries.                    *)
C29_OneRecordPerKey ==
    Loaded =>
        /\ \A k \in KeysUnder("packages") \cup KeysUnder("packages.conda") :
                Cardinality({e \in Kept : e.pkey = k}) = 1
        /\ \A e \in Kept : e.pkey \in UnderBoth => e \in EntriesOf(Preferred)
        /\ OncePerMap =>
                Kept = EntriesOf(Preferred)
                       \cup {e \in EntriesOf("packages") \cup EntriesOf("packages.conda") :
                                 e.pkey \notin KeysUnder(Preferred)}

C29_Witness ==
    /\ Loaded
    /\ prefer_conda
    /\ OncePerMap
    /\ "a-1-0" \in UnderBoth
    /\ Len(repodata["packages"]) = 2
    /\ repodata["packages"][2].pkey = "a-1-0"
    /\ Entry("a-1-0.conda", "a-1-0") \in Kept
    /\ Entry("a-1-0.tar.bz2", "a-1-0") \notin Kept

-----------------------------------------------------------------------------
(* The order of iteration.  The same resolvers with their collections kept *)
(* in order: `specs_to_process` of both resolve.py is a Python set, whose   *)
(* pop() and iteration follow the hashes of the strings and so no order    *)
(* of the program; UniqueAppendableStream keeps a dict and takes           *)
(* popitem(), the item added last.  A networkx graph keeps its nodes in    *)
(* the order they were added.                                              *)

MaxStreamChannel == 2
MaxStreamReq == 2

Range(seq) == {seq[i] : i \in DOMAIN seq}

(* The ways of listing a set. *)
Orderings(S) == {seq \in [1..Cardinality(S) -> S] : Range(seq) = S}

(* The order in which a query hands out its records: one fixed listing. *)
QueryOrder(spec) == CHOOSE seq \in Orderings(Candidates(spec)) : TRUE

(* `seq` after each item of `items`, in order, was added unless it is in   *)
(* `skip` or present already.                                              *)
RECURSIVE AppendAbsent(_, _, _)
AppendAbsent(seq, items, skip) ==
    IF items = <<>> THEN seq
    ELSE LET item == Head(items)
         IN  AppendAbsent(IF item \in skip \/ item \in Range(seq)
                          THEN seq ELSE Append(seq, item),
                          Tail(items), skip)

(* `for package in query: ... for depend in package.depends`: each record  *)
(* followed by its dependency strings as declared.                         *)
RECURSIVE Walk(_)
Walk(packages) ==
    IF packages = <<>> THEN <<>>
    ELSE <<Head(packages)>> \o Depends(Head(packages)) \o Walk(Tail(packages))

(* The pending specs once the one at place i was taken. *)
TakenFrom(seq, i) ==
    [j \in 1..(Len(seq) - 1) |-> IF j < i THEN seq[j] ELSE seq[j + 1]]

(* The places pop() / popitem() can take the next spec from. *)
TakePlaces ==
    IF variant = "finder"
    THEN {Len(pending_order)} \cap DOMAIN pending_order
    ELSE DOMAIN pending_order

StreamInit ==
    /\ variant \in {"replicate", "local", "finder"}
    /\ latest = FALSE
    /\ validate = (variant # "finder")
    /\ channel \in Bounded(PackageIds, MaxStreamChannel)
    /\ requirements \in Bounded(RequirementChoices, MaxStreamReq)
    /\ exclusions = {}
    /\ disposables = {}
    /\ FirstCall
    /\ NoStore
    /\ NoAside

(* The roots are added and queued in the order the caller lists them. *)
StreamAddRoots ==
    /\ pc = "start"
    /\ \E listed \in Orderings(requirements) :
        /\ pending_order' = listed
        /\ insert_order' = listed
    /\ nodes' = requirements
    /\ roots' = requirements
    /\ specs_to_process' = requirements
    /\ pc' = "populate"
    /\ UNCHANGED <<finder, updating, adding, filtering, ordering, loading, store, calls,
                   params, edges, specs_processed, scan, result, error, missing,
                   take_order, visit_order>>

(* One iteration of the expansion loop with the orders kept. *)
StreamProcessSpec ==
    /\ pc = "populate"
    /\ \E i \in TakePlaces :
        LET spec == pending_order[i]
            walk == Walk(QueryOrder(spec))
            pkgs == Candidates(spec)
            deps == UNION {DependsSet(p) : p \in pkgs}
            done == specs_processed \cup {spec}
            pending == AppendAbsent(TakenFrom(pending_order, i),
                                    SelectSeq(walk, IsSpecNode), done)
        IN  /\ take_order' = Append(take_order, spec)
            /\ specs_processed' = done
            /\ pending_order' = pending
            /\ specs_to_process' = Range(pending)
            /\ insert_order' = AppendAbsent(insert_order, walk, {})
            /\ nodes' = nodes \cup pkgs \cup deps
            /\ edges' = edges \cup {<<spec, p>> : p \in pkgs}
                              \cup UNION {{<<p, d>> : d \in DependsSet(p)} : p \in pkgs}
    /\ UNCHANGED <<finder, updating, adding, filtering, ordering, loading, store, calls,
                   params, pc, roots, scan, result, error, missing, visit_order>>

(* The loop ends; the unsatisfied scan takes its snapshot set(graph). *)
StreamEndPopulate ==
    /\ pc = "populate"
    /\ variant # "finder"
    /\ pending_order = <<>>
    /\ pc' = "unsatisfied"
    /\ scan' = nodes
    /\ visit_order' = <<>>
    /\ UNCHANGED <<finder, updating, adding, filtering, ordering, loading, store, calls,
                   params, nodes, edges, roots, specs_to_process, specs_processed,
                   result, error, missing, pending_order, take_order, insert_order>>

(* One iteration of `for node in set(graph)`: the next node the set hands  *)
(* out, whether or not it is still in the graph.                           *)
StreamPruneUnsatisfied ==
    /\ pc = "unsatisfied"
    /\ \E node \in scan :
        \E G \in prune_unsatisfied(Graph(nodes, edges), node) :
            /\ nodes' = G.nodes
            /\ edges' = G.edges
            /\ scan' = scan \ {node}
            /\ visit_order' = Append(visit_order, node)
    /\ UNCHANGED <<finder, updating, adding, filtering, ordering, loading, store, calls,
                   params, pc, roots, specs_to_process, specs_processed, result, error,
                   missing, pending_order, take_order, insert_order>>

(* conda_local: the orphan scan takes a new snapshot set(graph). *)
StreamEndUnsatisfied ==
    /\ pc = "unsatisfied"
    /\ scan = {}
    /\ variant = "local"
    /\ pc' = "orphaned"
    /\ scan' = nodes
    /\ visit_order' = <<>>
    /\ UNCHANGED <<finder, updating, adding, filtering, ordering, loading, store, calls,
                   params, nodes, edges, roots, specs_to_process, specs_processed,
                   result, error, missing, pending_order, take_order, insert_order>>

StreamPruneOrphaned ==
    /\ pc = "orphaned"
    /\ \E node \in scan :
        \E G \in prune_orphaned(Graph(nodes, edges), roots, node) :
            /\ nodes' = G.nodes
            /\ edges' = G.edges
            /\ scan' = scan \ {node}
            /\ visit_order' = Append(visit_order, node)
    /\ UNCHANGED <<finder, updating, adding, filtering, ordering, loading, store, calls,
                   params, pc, roots, specs_to_process, specs_processed, result, error,
                   missing, pending_order, take_order, insert_order>>

StreamNext ==
    \/ StreamAddRoots
    \/ StreamProcessSpec
    \/ StreamEndPopulate
    \/ StreamPruneUnsatisfied
    \/ StreamEndUnsatisfied
    \/ StreamPruneOrphaned
    \/ PruneDisconnectedNodes
    \/ VerifyAndExtractReplicate
    \/ ExtractPackagesLocal
    \/ EndConstruct
    \/ ExcludeUnsatisfiedNode
    \/ ExtractRecords

StreamSpec == StreamInit /\ [][StreamNext]_vars

-----------------------------------------------------------------------------
(* Root specs and the pruning passes.                                      *)

RootsInGraph == roots \cap nodes

-----------------------------------------------------------------------------
(* The pruning passes, run again.                                          *)

(* Both passes of the running revision have been run once. *)
PassesOver == (pc = "orphaned" /\ scan = {}) \/ pc \in {"verify", "done"}

(* A further run of the second pass of the running revision removes        *)
(* nothing.                                                                *)
SecondPassIdle(G) ==
    IF variant = "local"
    THEN \A n \in G.nodes : prune_orphaned(G, roots, n) = {G}
    ELSE G.nodes \subseteq Connected(G, requirements)

(* C32: while and after the second pass runs every spec in the graph has   *)
(* a candidate, and once both passes have run a further run of the         *)
(* unsatisfied pass or of the second pass leaves the graph as it is.       *)
C32_PassesDecoupled ==
    LET G == Graph(nodes, edges)
    IN  /\ pc \in {"orphaned", "verify", "done"} =>
                \A n \in nodes : IsSpecNode(n) => Successors(edges, n) # {}
        /\ PassesOver =>
                /\ \A n \in nodes : prune_unsatisfied(G, n) = {G}
                /\ SecondPassIdle(G)

(* The second pass removed a spec whose candidate stays in the graph. *)
C32_Witness ==
    /\ PassesOver
    /\ \E s \in specs_processed \ nodes : Candidates(s) \cap nodes # {}

-----------------------------------------------------------------------------
(* Each spec is queried once.                                              *)

(* C33: every iteration of the expansion loop takes a pending spec that    *)
(* has not been processed before and marks exactly that spec as            *)
(* processed, and no processed spec is pending again afterwards; so no     *)
(* spec string is popped and queried twice in one resolution.              *)
C33_QueriedOnce ==
    [][(pc = "populate" /\ pc' = "populate") =>
           /\ \E spec \in specs_to_process \ specs_processed :
                  /\ specs_processed' = specs_processed \cup {spec}
                  /\ spec \notin specs_to_process'
           /\ specs_to_process' \cap specs_processed' = {}]_vars

(* The expansion is over, a requirement is also a dependency of a record   *)
(* in the graph, and a processed spec lies on a dependency cycle.          *)
C33_Witness ==
    /\ pc = "populate"
    /\ specs_to_process = {}
    /\ \E s \in roots \cap specs_processed :
           \E p \in nodes : ~IsSpecNode(p) /\ s \in DependsSet(p)
    /\ \E s \in specs_processed : \E p \in Candidates(s) \cap nodes :
           \E d \in DependsSet(p) : \E q \in Candidates(d) \cap nodes :
               \E e \in DependsSet(q) : p \in Candidates(e)

-----------------------------------------------------------------------------
(* A requirement that is also a dependency.                                *)

(* C34: in conda_local every requirement string keeps its root mark from   *)
(* the moment the roots are added, also when a record names it as a        *)
(* dependency, and no step of the orphan pass removes a requirement from   *)
(* the graph.                                                              *)
C34_RootMarkKept ==
    [][variant = "local" =>
           /\ pc # "start" => requirements \subseteq roots'
           /\ pc = "orphaned" => requirements \cap nodes \subseteq nodes']_vars

(* The orphan pass is over; a requirement in the graph is a dependency of  *)
(* a record that was in the graph, and no record that depends on it is     *)
(* left.                                                                   *)
C34_Witness ==
    /\ variant = "local"
    /\ pc = "done"
    /\ \E r \in requirements \cap nodes :
           /\ Predecessors(edges, r) = {}
           /\ \E s \in specs_processed : \E p \in Candidates(s) \ nodes :
                  r \in DependsSet(p)

-----------------------------------------------------------------------------
(* Shape of the graph.                                                     *)

(* C35: in every state of construction and pruning each edge joins a spec  *)
(* string and a record, in one direction or the other, and both its        *)
(* endpoints are nodes of the graph.                                       *)
C35_WellFormed ==
    \A e \in edges :
        /\ e[1] \in nodes
        /\ e[2] \in nodes
        /\ \/ IsSpecNode(e[1]) /\ IsPackageNode(e[2])
           \/ IsPackageNode(e[1]) /\ IsSpecNode(e[2])

(* Pruning removed a record that had edges of both kinds, and edges of     *)
(* both kinds are left.                                                    *)
C35_Witness ==
    /\ pc \in {"orphaned", "verify", "done"}
    /\ \E s \in specs_processed : \E p \in Candidates(s) \ nodes : DependsSet(p) # {}
    /\ \E e \in edges : IsSpecNode(e[1])
    /\ \E e \in edges : IsPackageNode(e[1])

-----------------------------------------------------------------------------
(* Latest builds and constraints.                                          *)

(* Records of one latest-build group: same name, version and depends. *)
SameBuildGroup(p, q) ==
    /\ Name(q) = Name(p)
    /\ Version(q) = Version(p)
    /\ Depends(q) = Depends(p)

(* C38: in conda_local with latest=True, whenever a record of the channel  *)
(* matches a processed spec and is not constrained, some record of its     *)
(* (name, version, depends) group is a candidate of that spec.             *)
C38_LatestKeepsAcceptable ==
    (variant = "local" /\ latest) =>
        \A s \in specs_processed :
            \A p \in ChannelQuery(s) :
                ~ is_constrained(p) =>
                    \E q \in Candidates(s) : SameBuildGroup(p, q)

-----------------------------------------------------------------------------
(* Marking and removing compared.                                          *)

(* Resolver.resolve's scans over a snapshot of the nodes: the graphs that  *)
(* can be left when each node of `todo` has been handed to the pruning     *)
(* function once.                                                          *)
RECURSIVE UnsatisfiedPass(_, _), OrphanedPass(_, _)

UnsatisfiedPass(Gs, todo) ==
    IF todo = {} THEN Gs
    ELSE LET node == CHOOSE n \in todo : TRUE
         IN  UnsatisfiedPass(UNION {prune_unsatisfied(G, node) : G \in Gs},
                             todo \ {node})

OrphanedPass(Gs, todo) ==
    IF todo = {} THEN Gs
    ELSE LET node == CHOOSE n \in todo : TRUE
         IN  OrphanedPass(UNION {prune_orphaned(G, roots, node) : G \in Gs},
                          todo \ {node})

(* What the two passes of Resolver.resolve leave of the constructed graph. *)
ResolverGraphs ==
    UNION {OrphanedPass({G}, G.nodes) :
           G \in UnsatisfiedPass({Graph(nodes, edges)}, nodes)}

IncludedRecords == {n \in nodes : IsPackageNode(n)} \ excluded

(* C39: with no exclusions, no disposables and latest filtering off, the   *)
(* records construct_dependency_graph leaves marked as included are the    *)
(* records left in the same graph by the unsatisfied pass followed by the  *)
(* orphan pass of Resolver.resolve.                                        *)
C39_MarkingAgreesWithRemoval ==
    (variant = "finder" /\ pc = "done") =>
        \A G \in ResolverGraphs :
            {n \in G.nodes : IsPackageNode(n)} = IncludedRecords

(* Marking is over: a record without dependencies is excluded with every   *)
(* spec it is a candidate of, and other records stay included.             *)
C39_Witness ==
    /\ variant = "finder"
    /\ pc = "done"
    /\ IncludedRecords # {}
    /\ \E r \in excluded : /\ IsPackageNode(r)
                            /\ DependsSet(r) = {}
                            /\ Predecessors(edges, r) \subseteq excluded

-----------------------------------------------------------------------------
(* An update brings the target to the resolved set.                        *)

IdentityKeys(records) == {IdentityKey(r) : r \in records}

-----------------------------------------------------------------------------
(* Producing a patch.                                                      *)

(* A step of a flow that produces a patch: sync with a patch folder, or    *)
(* create_patch / run_patch writing into their destination.                *)
PatchStep ==
    \/ step = "synced" /\ step' = "patched"
    \/ flow \in {"find_packages", "query"} /\ step = "diffed"

(* C37: no step that produces a patch changes the package files of the     *)
(* local / target channel: the files to add go to the patch folder only    *)
(* and the removals are recorded in the patch only.                        *)
C37_PatchLeavesChannel ==
    [][PatchStep =>
           /\ local_files' = local_files
           /\ local_index' = local_index]_vars

-----------------------------------------------------------------------------
(* The order of iteration, as the specification has it.                    *)

Place(seq, x) == CHOOSE i \in DOMAIN seq : seq[i] = x

(* The nodes of the running scan's snapshot in the order they were added. *)
SnapshotOrder ==
    LET InSnapshot(n) == n \in scan \cup Range(visit_order)
    IN  SelectSeq(insert_order, InSnapshot)

(* The dependency strings a record brought into the graph stand behind it  *)
(* in the order the record declares them.                                  *)
DeclarationOrder ==
    \A p \in Range(insert_order) \cap PackageIds :
        \A i \in DOMAIN Depends(p) : \A j \in DOMAIN Depends(p) :
            (/\ i < j
             /\ Place(insert_order, Depends(p)[i]) > Place(insert_order, p)
             /\ Place(insert_order, Depends(p)[j]) > Place(insert_order, p))
            => Place(insert_order, Depends(p)[i]) < Place(insert_order, Depends(p)[j])

(* C40: the spec taken by a loop iteration is the one that has been        *)
(* pending longest (first in, first out), the dependency strings of a      *)
(* record enter the graph in declaration order, and a pruning scan visits  *)
(* the nodes of its snapshot in the order they were added to the graph.    *)
C40_StableOrder ==
    [][/\ take_order' # take_order =>
              take_order'[Len(take_order')] = Head(pending_order)
       /\ DeclarationOrder'
       /\ (visit_order' # visit_order /\ visit_order' # <<>>) =>
              visit_order' = SubSeq(SnapshotOrder, 1, Len(visit_order'))]_vars

====
